---- MODULE Spec2Model ----
(***************************************************************************)
(* Verification model of the multiplayer networking core: the dedicated    *)
(* server (Server, ServerLoop, SnapshotManager), the command pipeline      *)
(* (PlayerCommand, CommandBuffer, CommandValidator) and the client-side    *)
(* Predictor.                                                              *)
(*                                                                         *)
(* One module, several specifications over the same variables:             *)
(*   SpecLoop       the server lifecycle: main thread, stop requests from  *)
(*                  other threads, the fixed-timestep loop and its clock   *)
(*   SpecCommands   the command buffer and the per-tick command processing *)
(*   SpecValidator  the command validator and its rate limiter             *)
(*   SpecPredictor  the predictor's record / reconcile cycle               *)
(* A specification leaves the variables of the other components at their  *)
(* initial values.                                                         *)
(***************************************************************************)
EXTENDS Integers, Sequences, FiniteSets, TLC

VARIABLES
    \* ---- wall clocks
    now,                \* high_resolution_clock, in clock units
    clockMs,            \* steady_clock in milliseconds (rate limiter)
    \* ---- Server (Server.h:134-140)
    initialized,        \* Server::initialized
    serverRunning,      \* Server::running
    totalCommandsProcessed,  \* Server::totalCommandsProcessed
    totalCommandsRejected,   \* Server::totalCommandsRejected
    \* ---- ServerLoop (ServerLoop.h:93-102)
    loopRunning,        \* ServerLoop::running
    gameTick,           \* ServerLoop::gameTick
    accumulatedTime,    \* ServerLoop::accumulatedTime
    lastSimulationTime, \* ServerLoop::lastSimulationTime
    lastBroadcastTime,  \* ServerLoop::lastBroadcastTime
    currentTime,        \* local of ServerLoop::Run (line 53)
    \* ---- GameState / SnapshotManager
    worldTick,          \* Server::gameState->gameTick
    snapshots,          \* SnapshotManager::snapshots (deque)
    snapshotsSinceLastKeyframe,  \* SnapshotManager::snapshotsSinceLastKeyframe
    snapshotLog,        \* every snapshot created since the first state of the
                        \* behaviour, in order (not program state)
    \* ---- threads
    mainPc,             \* position of the main thread (ServerMain.cpp main)
    stopPc,             \* position of each thread inside Server::Stop
    \* ---- history of the current Run (not program state)
    events,             \* callbacks made by the loop since Run began
    runStart,           \* clock value read when Run began
    simsThisFrame,      \* ProcessSimulation calls in the current iteration
    stopCompleted,      \* a Stop ran to completion since the last Start
    runs,               \* number of Start calls that succeeded
    \* ---- CommandBuffer (CommandBuffer.h:95-102)
    commandQueue,       \* multimap tick -> command, as a tick-sorted sequence
    playerCommands,     \* map player -> vector of commands
    handed,             \* per buffered command, how many times it was handed
                        \* to validation, kept by the specification that
                        \* watches it (not program state)
    \* ---- CommandValidator (CommandValidator.h:97-114)
    playerRateLimits,   \* map player -> RateLimitData
    accepted,           \* per player, the clock values of the VALID results
                        \* since the tracking of the player began (not program state)
    \* ---- Predictor (Predictor.h:94-104)
    unconfirmedCommands,
    lastConfirmedTick,
    predictionErrors,
    recorded,           \* number of RecordCommand calls (next sequence number)
    \* ---- ConnectionMonitor (ConnectionMonitor.h:98-113), the object as a record
    connectionMonitor,
    \* ---- EntityInterpolator (EntityInterpolator.h:103)
    systemMs,           \* system_clock in milliseconds since the epoch
    entityStates,       \* map entity -> deque of EntityState
    lastInterpolated,   \* map entity -> EntityHistory::lastInterpolated
    arrivals,           \* per entity, what the last pruning left of its
                        \* timeline, then every state handed to AddSnapshot
                        \* since, in order (not program state)
    \* ---- MultiplayerClient (MultiplayerClient.h:119-136)
    state,              \* MultiplayerClient::state
    transport,          \* the connection of the NetworkManager
    playerUUID,         \* <<>> while the pointer is null, else <<uuid>>
    commandsSent,
    stateUpdatesReceived,
    clientPredictionErrors,  \* MultiplayerClient::predictionErrors
    clientGameTick,     \* MultiplayerClient::gameState->gameTick
    clientCrashed,      \* the process ended in SendCommand's read through the
                        \* null playerUUID
    stateEdges,         \* the changes of `state` made by the latest call of
                        \* the client, as <<from, to>> (not program state)
    sentSequenceNumbers, \* sequence numbers of the commands sent (not program state)
    connectionActiveAt, \* clock value when the connection was established or
                        \* its last packet arrived (not program state)
    \* ---- ClientReconciliation (ClientReconciliation.h:91-112), the position
    \*      channel of the object as a record
    reconciliation,
    correction,         \* the caller of the reconciler: the positions of the
                        \* latest ReconcilePosition, the position it corrects
                        \* frame by frame and the calls made since (not
                        \* program state)
    \* ---- ProjectileSync (ProjectileSync.h:130-140), the object as a record
    projectileSync,
    projectileLog,      \* the network IDs handed out since the last Clear, and
                        \* per kind the events registered since the last drain
                        \* of the kind, with and without the events a Clear
                        \* has removed (not program state)
    \* ---- InterestManager (InterestManager.h:88-91) and StateSync
    \*      (StateSync.h:110-114), the objects as records, and the ships of
    \*      the world in world order
    interestManager,
    stateSync,
    ships,
    \* ---- the position, velocity, angle and tick of the update last applied
    \*      to the ship of each slot, <<>> when none was (not program state)
    lastUpdate,
    \* ---- PlayerManager (PlayerManager.h:104-114): the UUIDs in its registry,
    \*      shipOwnership and whether onPlayerLeave is set; and the ship lists
    \*      of the NetworkPlayer objects (NetworkPlayer.h:94).  A ship is named
    \*      by its slot in the world.
    playerManager,
    networkPlayers,
    \* ---- the server program (ServerMain.cpp): g_shutdown, the position of
    \*      the console thread and ServerConfig::enableConsole
    gShutdown,
    consolePc,
    consoleEnabled,
    \* ---- the latest call of a component's interface: its name, arguments
    \*      and return value (not program state)
    op

clockVars == <<now, clockMs>>
serverVars == <<initialized, serverRunning, totalCommandsProcessed, totalCommandsRejected>>
loopVars == <<loopRunning, gameTick, accumulatedTime, lastSimulationTime,
              lastBroadcastTime, currentTime>>
worldVars == <<worldTick, snapshots, snapshotsSinceLastKeyframe, snapshotLog>>
threadVars == <<mainPc, stopPc>>
historyVars == <<events, runStart, simsThisFrame, stopCompleted, runs>>
bufferVars == <<commandQueue, playerCommands, handed>>
validatorVars == <<playerRateLimits, accepted>>
predictorVars == <<unconfirmedCommands, lastConfirmedTick, predictionErrors,
                   recorded>>
interpolatorVars == <<systemMs, entityStates, lastInterpolated, arrivals>>
clientVars == <<state, transport, playerUUID, commandsSent, stateUpdatesReceived,
                clientPredictionErrors, clientGameTick, clientCrashed, stateEdges,
                sentSequenceNumbers, connectionActiveAt>>
reconciliationVars == <<reconciliation, correction>>
projectileVars == <<projectileSync, projectileLog>>
stateSyncVars == <<interestManager, stateSync, ships, lastUpdate>>
managerVars == <<playerManager, networkPlayers>>
programVars == <<gShutdown, consolePc, consoleEnabled>>
componentVars == <<reconciliationVars, projectileVars, stateSyncVars, managerVars,
                   programVars>>
clientSideVars == <<connectionMonitor, interpolatorVars, clientVars, componentVars>>

vars == <<clockVars, serverVars, loopVars, worldVars, threadVars, historyVars,
          bufferVars, validatorVars, predictorVars, clientSideVars, op>>

(***************************************************************************)
(* Bounds of the model and program constants.                              *)
(***************************************************************************)

\* Clock units per second of the loop clock: the simulation step at 60 Hz is
\* 2 units, the broadcast interval at 20 Hz is 6 units.
ClockUnitsPerSecond == 120

\* The loop clock stops advancing here.
MaxTime == 12

\* Number of Start / Run cycles of the main thread.
MaxRuns == 2

\* ServerConfig defaults.
targetSimulationHz == 60
targetBroadcastHz == 20

\* SnapshotManager::historySize as configured.
historySize == 3

\* SnapshotManager::keyframeInterval as configured (the tests set 5).
keyframeInterval == 2

\* uint64_t tick arithmetic, narrowed to 30 bits: every well-formed tick is at
\* most TickCeiling < 2^30, so a wrapped difference lies above every
\* well-formed tick exactly as it does with 64 bits.
TickModulus == 1073741824

\* PlayerCommand::IsValid sanity ceiling.
TickCeiling == 1000000000

\* Server::ProcessCommands keeps the last 120 ticks of commands.
PruneKeepTicks == 120

\* CommandValidator defaults and its rate-limit window.
maxPastTicks == 60
maxFutureTicks == 60
RATE_LIMIT_WINDOW_MS == 1000

\* CommandValidator::maxCommandsPerSecond as configured (the tests set 10).
maxCommandsPerSecond == 2

\* CommandBuffer::maxBufferSize as configured.
maxBufferSize == 2

\* The UUIDs of the players, and the sequence numbers they send.
Players == {1, 2}
SequenceNumbers == {0, 1}

(***************************************************************************)
(* PlayerCommand (PlayerCommand.h)                                         *)
(***************************************************************************)

\* The identity of a command.  The payload (control word, target angle,
\* flags) is left out: the buffer, the validator and the predictor never read it.
PlayerCommand(uuid, tick, seq) ==
    [playerUUID |-> uuid, gameTick |-> tick, sequenceNumber |-> seq]

\* EsUuid::ToString: the string form of a player's UUID.
UuidToString(uuid) == IF uuid \in Players THEN "uuid" ELSE ""

\* PlayerCommand::operator< : (tick, sequence) ascending.
CommandLess(a, b) ==
    IF a.gameTick # b.gameTick
    THEN a.gameTick < b.gameTick
    ELSE a.sequenceNumber < b.sequenceNumber

\* PlayerCommand::operator==
CommandEquals(a, b) ==
    /\ a.playerUUID = b.playerUUID
    /\ a.gameTick = b.gameTick
    /\ a.sequenceNumber = b.sequenceNumber

\* PlayerCommand::IsValid
TickAboveCeiling(tick) == tick > TickCeiling

IsValidCommand(c) ==
    IF UuidToString(c.playerUUID) = "" THEN FALSE
    ELSE IF TickAboveCeiling(c.gameTick) THEN FALSE
    ELSE TRUE

(***************************************************************************)
(* CommandBuffer (CommandBuffer.cpp)                                       *)
(***************************************************************************)

\* std::multimap::emplace: the new element goes after every element whose key
\* is not greater (the upper bound of its key).
UpperBound(queue, tick) ==
    Cardinality({i \in 1..Len(queue) : queue[i].gameTick <= tick})

\* The lower bound of a key: the elements before it have a smaller key.
LowerBound(queue, tick) ==
    Cardinality({i \in 1..Len(queue) : queue[i].gameTick < tick})

MultimapEmplace(queue, c) ==
    LET k == UpperBound(queue, c.gameTick)
    IN  SubSeq(queue, 1, k) \o <<c>> \o SubSeq(queue, k + 1, Len(queue))

\* CommandBuffer::IsDuplicate: a search of the player's own vector.
IsDuplicate(index, c) ==
    \E i \in 1..Len(index[c.playerUUID]) : CommandEquals(index[c.playerUUID][i], c)

\* The size check of AddCommand (CommandBuffer.cpp:37).
BufferFull_Above(queue) == Len(queue) > maxBufferSize

BufferFull(queue) == Len(queue) >= maxBufferSize

\* The value AddCommand returns.
AddCommandAccepts(queue, index, c) ==
    IF ~IsValidCommand(c) THEN FALSE
    ELSE IF BufferFull(queue) THEN FALSE
    ELSE IF IsDuplicate(index, c) THEN FALSE
    ELSE TRUE

\* CommandBuffer::GetCommandsForTick: the equal_range of the tick, in queue order.
EqualRange(queue, tick) ==
    SubSeq(queue, LowerBound(queue, tick) + 1, UpperBound(queue, tick))

GetCommandsForTick(queue, tick) == EqualRange(queue, tick)

\* CommandBuffer::PruneOlderThan, on the queue: erase from the front while the
\* key is below the tick.
RECURSIVE PruneQueue(_, _)
PruneQueue(queue, tick) ==
    IF queue # <<>> /\ Head(queue).gameTick < tick
    THEN PruneQueue(Tail(queue), tick)
    ELSE queue

\* CommandBuffer::PruneOlderThan, on the per-player index: remove_if on every
\* vector (an entry left empty is erased: an absent entry is the empty vector).
PruneIndex_Keep(index, tick) == index

PruneIndex(index, tick) ==
    [p \in DOMAIN index |-> SelectSeq(index[p], LAMBDA c : ~(c.gameTick < tick))]

(***************************************************************************)
(* CommandValidator (CommandValidator.cpp)                                 *)
(***************************************************************************)

\* RateLimitData as default-constructed (CommandValidator.h:98-102).
NewRateLimitData == [lastCommandTime |-> 0, commandsInWindow |-> 0, windowStartTime |-> 0]

\* uint64_t subtraction and addition.
TickSub(a, b) == (a - b) % TickModulus
TickAdd(a, b) == (a + b) % TickModulus

\* The window test of CheckRateLimit (CommandValidator.cpp:141).
WindowElapsed(data, time) == time - data.windowStartTime >= RATE_LIMIT_WINDOW_MS

\* CommandValidator::CheckRateLimit: the player's data after the call and the
\* value returned.  commandsPerSecond = commandsInWindow * 1000.0 / window is
\* compared with the limit; both sides are multiplied by the window here.
RateExceeded_OneMore(count) ==
    count * 1000 > (maxCommandsPerSecond + 1) * RATE_LIMIT_WINDOW_MS

RateExceeded(count) == count * 1000 > maxCommandsPerSecond * RATE_LIMIT_WINDOW_MS

CheckRateLimit(data, time) ==
    LET started == IF WindowElapsed(data, time)
                   THEN [data EXCEPT !.windowStartTime = time, !.commandsInWindow = 0]
                   ELSE data
        counted == [started EXCEPT !.commandsInWindow = @ + 1, !.lastCommandTime = time]
    IN  [data |-> counted, ok |-> ~RateExceeded(counted.commandsInWindow)]

\* The tick-window tests of ValidateCommand (CommandValidator.cpp:49, 55), in
\* uint64_t arithmetic.
TooOld(tick, current) == tick < TickSub(current, maxPastTicks)

TooFuture(tick, current) == tick > TickAdd(current, maxFutureTicks)

\* CommandValidator::ValidateCommand: the result and the rate-limit map after
\* the call.  The statistics counters totalCommands and rejectedCommands are
\* left out: nothing reads them back into the validation.
ValidateCommand(limits, c, current, time) ==
    IF ~IsValidCommand(c)
    THEN [result |-> "MALFORMED", limits |-> limits]
    ELSE IF UuidToString(c.playerUUID) = ""
    THEN [result |-> "INVALID_PLAYER", limits |-> limits]
    ELSE IF TooOld(c.gameTick, current)
    THEN [result |-> "TOO_OLD", limits |-> limits]
    ELSE IF TooFuture(c.gameTick, current)
    THEN [result |-> "TOO_FUTURE", limits |-> limits]
    ELSE LET r == CheckRateLimit(limits[c.playerUUID], time)
         IN  [result |-> IF r.ok THEN "VALID" ELSE "RATE_LIMITED",
              limits |-> [limits EXCEPT ![c.playerUUID] = r.data]]

(***************************************************************************)
(* Server::ProcessCommands (Server.cpp:375-407)                            *)
(***************************************************************************)

\* The loop over the commands of the tick: each is validated in turn against
\* the rate-limit map the previous one left.  All of them read the same clock
\* value.  Returns the commands found VALID (applied) and those rejected, in
\* the order they were met, and the rate-limit map at the end.
RECURSIVE ValidateAll(_, _, _, _, _, _)
ValidateAll(commands, limits, current, time, applied, rejected) ==
    IF commands = <<>>
    THEN [applied |-> applied, rejected |-> rejected, limits |-> limits]
    ELSE LET v == ValidateCommand(limits, Head(commands), current, time)
         IN  IF v.result = "VALID"
             THEN ValidateAll(Tail(commands), v.limits, current, time,
                              Append(applied, Head(commands)), rejected)
             ELSE ValidateAll(Tail(commands), v.limits, current, time,
                              applied, Append(rejected, Head(commands)))

\* The count of the commands handed to validation: for no command, not
\* kept, and a new count where it is kept.
NoneHanded == [b \in {} |-> 0]
NotWatched == [watching |-> FALSE, count |-> NoneHanded]
Watched == [watching |-> TRUE, count |-> NoneHanded]
Counted(h, count) == IF h.watching THEN [h EXCEPT !.count = count] ELSE h

\* The commands in the buffer.
Buffered(queue) == {queue[i] : i \in 1..Len(queue)}

\* The prune at the end of ProcessCommands: keep the last 120 ticks.
PruneAfterTick(queue, tick) ==
    IF tick > PruneKeepTicks THEN PruneQueue(queue, tick - PruneKeepTicks) ELSE queue

PruneIndexAfterTick(index, tick) ==
    IF tick > PruneKeepTicks THEN PruneIndex(index, tick - PruneKeepTicks) ELSE index

\* Server::ProcessCommands as an action on the buffer, the validator and the
\* server's counters; `tick` is the tick handed to the simulation callback.
ProcessCommands(tick) ==
    LET commands == GetCommandsForTick(commandQueue, tick)
        done == ValidateAll(commands, playerRateLimits, tick, clockMs, <<>>, <<>>)
    IN  /\ playerRateLimits' = done.limits
        /\ accepted' = [p \in Players |->
                          accepted[p] \o [i \in 1..Len(SelectSeq(done.applied,
                                               LAMBDA c : c.playerUUID = p)) |-> clockMs]]
        /\ totalCommandsProcessed' = totalCommandsProcessed + Len(done.applied)
        /\ totalCommandsRejected' = totalCommandsRejected + Len(done.rejected)
        /\ commandQueue' = PruneAfterTick(commandQueue, tick)
        /\ playerCommands' = PruneIndexAfterTick(playerCommands, tick)
        /\ handed' = Counted(handed,
                           [b \in Buffered(commandQueue') |->
                               handed.count[b]
                                   + Cardinality({i \in 1..Len(commands) : commands[i] = b})])
        /\ op' = [name |-> "ProcessCommands", tick |-> tick, commands |-> commands,
                  applied |-> done.applied, rejected |-> done.rejected]

(***************************************************************************)
(* SnapshotManager (SnapshotManager.cpp) and the simulation tick           *)
(***************************************************************************)

\* The pruning loop of CreateSnapshot: pop the front while over the history size.
TrimHistory_None(ring) == ring

RECURSIVE TrimHistory(_)
TrimHistory(ring) ==
    IF Len(ring) > historySize THEN TrimHistory(Tail(ring)) ELSE ring

\* SnapshotManager::ShouldCreateKeyframe
ShouldCreateKeyframe(since) == since >= keyframeInterval

\* The keyframe decision of CreateSnapshot (SnapshotManager.cpp:49) and the
\* counter after it (SnapshotManager.cpp:72-78).
IsKeyframe(since, forceKeyframe) == forceKeyframe \/ ShouldCreateKeyframe(since)

CounterAfterSnapshot(since, isKeyframe) == IF isKeyframe THEN 0 ELSE since + 1

\* A snapshot: a copy of the world (its tick is all the model keeps of it)
\* labelled with the tick it is given.
Snapshot(stateTick, tick, isKeyframe, forceKeyframe) ==
    [gameTick |-> tick, stateTick |-> stateTick, isKeyframe |-> isKeyframe,
     forced |-> forceKeyframe]

\* SnapshotManager::CreateSnapshot on the deque: push_back, then the pruning loop.
CreateSnapshot(ring, snapshot) == TrimHistory(Append(ring, snapshot))

\* SnapshotManager::CreateSnapshot on the whole manager, given as a record of
\* the deque, the keyframe counter and the log.  The size estimates and the
\* statistics counters are left out.
ManagerAfterCreate(m, stateTick, tick, forceKeyframe) ==
    LET isKeyframe == IsKeyframe(m.since, forceKeyframe)
        snapshot == Snapshot(stateTick, tick, isKeyframe, forceKeyframe)
    IN  [ring |-> CreateSnapshot(m.ring, snapshot),
         since |-> CounterAfterSnapshot(m.since, isKeyframe),
         log |-> Append(m.log, snapshot)]

\* SnapshotManager::CreateSnapshot as an action on the snapshot manager.
SnapshotCreated(stateTick, tick, forceKeyframe) ==
    LET m == ManagerAfterCreate([ring |-> snapshots, since |-> snapshotsSinceLastKeyframe,
                                 log |-> snapshotLog], stateTick, tick, forceKeyframe)
    IN  /\ snapshots' = m.ring
        /\ snapshotsSinceLastKeyframe' = m.since
        /\ snapshotLog' = m.log

\* std::lower_bound over the deque with the comparison snap.gameTick < tick
\* (SnapshotManager.cpp:105-108): the bisection of the standard library, from
\* position `first` over `len` elements.  On a deque that is not in tick order
\* it still ends at the position the bisection leads to.
RECURSIVE LowerBoundSearch(_, _, _, _)
LowerBoundSearch(ring, first, len, tick) ==
    IF len = 0 THEN first
    ELSE LET half == len \div 2
             middle == first + half
         IN  IF ring[middle].gameTick < tick
             THEN LowerBoundSearch(ring, middle + 1, len - half - 1, tick)
             ELSE LowerBoundSearch(ring, first, half, tick)

\* SnapshotManager::GetSnapshotAtTick: <<snapshot>> when found, <<>> for nullptr.
GetSnapshotAtTick(ring, tick) ==
    LET it == LowerBoundSearch(ring, 1, Len(ring), tick)
    IN  IF it <= Len(ring) /\ ring[it].gameTick = tick THEN <<ring[it]>> ELSE <<>>

\* SnapshotManager::GetLatestSnapshot: <<snapshot>>, or <<>> for nullptr.
GetLatestSnapshot(ring) == IF ring = <<>> THEN <<>> ELSE <<ring[Len(ring)]>>

\* The tick of the latest snapshot, -1 for none.
LatestSnapshotTick(ring) == IF ring = <<>> THEN -1 ELSE ring[Len(ring)].gameTick

\* Server::OnSimulationTick: commands, then the world step, then the snapshot.
OnSimulationTick(tick) ==
    /\ ProcessCommands(tick)
    /\ worldTick' = worldTick + 1
    /\ SnapshotCreated(worldTick + 1, tick, FALSE)

(***************************************************************************)
(* ServerLoop (ServerLoop.cpp)                                             *)
(***************************************************************************)

\* ServerLoop::UpdateTimingConfiguration, in clock units.
simulationTimestep == ClockUnitsPerSecond \div targetSimulationHz
broadcastInterval == ClockUnitsPerSecond \div targetBroadcastHz

\* The tick counter after a simulation tick (ServerLoop.cpp:147).
NextGameTick_ByTwo(tick) == tick + 2

NextGameTick(tick) == tick + 1

\* The accumulator after a simulation tick (ServerLoop.cpp:64).
AccumulatorAfterTick(acc) == acc - simulationTimestep

\* ServerLoop::ProcessSimulation: the callback gets the tick counter, which is
\* incremented after it.  The statistics (totalSimulationTicks, averageTickTime,
\* the rates of UpdateStatistics) are left out.
ProcessSimulation ==
    /\ OnSimulationTick(gameTick)
    /\ gameTick' = NextGameTick(gameTick)

\* ServerLoop::ProcessBroadcast: the callback gets the tick counter.
\* Server::OnBroadcastTick ignores it and sends the latest snapshot.
ProcessBroadcast ==
    events' = Append(events, [kind |-> "broadcast", tick |-> gameTick,
                              sent |-> LatestSnapshotTick(snapshots)])

(***************************************************************************)
(* The main thread: Initialize, Start, Run (ServerMain.cpp:172-195)        *)
(***************************************************************************)

LoopPcs == {"LoopTest", "Frame", "Simulate", "Broadcast", "Sleep"}

\* Server::Initialize
Initialize ==
    /\ mainPc = "Initialize"
    /\ initialized' = TRUE
    /\ mainPc' = "Start"
    /\ UNCHANGED clientSideVars
    /\ UNCHANGED <<clockVars, serverRunning, totalCommandsProcessed, totalCommandsRejected,
                   loopVars, worldVars, stopPc, historyVars, bufferVars, validatorVars,
                   predictorVars, op>>

\* Server::Start: refuses when not initialized or already running.
Start ==
    /\ mainPc = "Start"
    /\ IF initialized /\ ~serverRunning
       THEN /\ serverRunning' = TRUE
            /\ mainPc' = "Run"
            /\ runs' = runs + 1
            /\ stopCompleted' = FALSE
       ELSE /\ mainPc' = "Exit"
            /\ UNCHANGED <<serverRunning, runs, stopCompleted>>
    /\ UNCHANGED clientSideVars
    /\ UNCHANGED <<clockVars, initialized, totalCommandsProcessed, totalCommandsRejected,
                   loopVars, worldVars, stopPc, events, runStart, simsThisFrame,
                   bufferVars, validatorVars, predictorVars, op>>

\* Server::Run up to the call of ServerLoop::Run (Server.cpp:112-126).
Run ==
    /\ mainPc = "Run"
    /\ mainPc' = IF ~serverRunning THEN "Returned" ELSE "LoopEnter"
    /\ UNCHANGED clientSideVars
    /\ UNCHANGED <<clockVars, serverVars, loopVars, worldVars, stopPc, historyVars,
                   bufferVars, validatorVars, predictorVars, op>>

\* ServerLoop::Run before its loop (ServerLoop.cpp:35-42).
LoopEnter ==
    /\ mainPc = "LoopEnter"
    /\ loopRunning' = TRUE
    /\ gameTick' = 0
    /\ lastSimulationTime' = now
    /\ lastBroadcastTime' = now
    /\ accumulatedTime' = 0
    /\ mainPc' = "LoopTest"
    /\ events' = <<>>
    /\ runStart' = now
    /\ simsThisFrame' = 0
    /\ UNCHANGED clientSideVars
    /\ UNCHANGED <<clockVars, serverVars, currentTime, worldVars, stopPc, stopCompleted,
                   runs, bufferVars, validatorVars, predictorVars, op>>

\* while(running)  (ServerLoop.cpp:44); Server::Run returns when the loop ends.
LoopTest ==
    /\ mainPc = "LoopTest"
    /\ mainPc' = IF loopRunning THEN "Frame" ELSE "Returned"
    /\ UNCHANGED clientSideVars
    /\ UNCHANGED <<clockVars, serverVars, loopVars, worldVars, stopPc, historyVars,
                   bufferVars, validatorVars, predictorVars, op>>

\* The head of an iteration (ServerLoop.cpp:46-58): the input callback (which
\* does nothing yet), the clock reading, the accumulation.
Frame ==
    /\ mainPc = "Frame"
    /\ currentTime' = now
    /\ accumulatedTime' = accumulatedTime + (now - lastSimulationTime)
    /\ lastSimulationTime' = now
    /\ simsThisFrame' = 0
    /\ mainPc' = "Simulate"
    /\ UNCHANGED clientSideVars
    /\ UNCHANGED <<clockVars, serverVars, loopRunning, gameTick, lastBroadcastTime,
                   worldVars, stopPc, events, runStart, stopCompleted, runs,
                   bufferVars, validatorVars, predictorVars, op>>

\* One pass of the catch-up loop (ServerLoop.cpp:61-65).
SimulateTick ==
    /\ mainPc = "Simulate"
    /\ accumulatedTime >= simulationTimestep
    /\ ProcessSimulation
    /\ accumulatedTime' = AccumulatorAfterTick(accumulatedTime)
    /\ simsThisFrame' = simsThisFrame + 1
    /\ events' = events \o << [kind |-> "simulate", tick |-> gameTick],
                              [kind |-> "snapshot", tick |-> LatestSnapshotTick(snapshots')] >>
    /\ UNCHANGED clientSideVars
    /\ UNCHANGED <<clockVars, initialized, serverRunning, loopRunning, lastSimulationTime,
                   lastBroadcastTime, currentTime, threadVars, runStart, stopCompleted,
                   runs, predictorVars>>

\* The catch-up loop ends.
SimulateDone ==
    /\ mainPc = "Simulate"
    /\ ~(accumulatedTime >= simulationTimestep)
    /\ mainPc' = "Broadcast"
    /\ UNCHANGED clientSideVars
    /\ UNCHANGED <<clockVars, serverVars, loopVars, worldVars, stopPc, historyVars,
                   bufferVars, validatorVars, predictorVars, op>>

\* The broadcast check (ServerLoop.cpp:68-73).
Broadcast ==
    /\ mainPc = "Broadcast"
    /\ IF currentTime - lastBroadcastTime >= broadcastInterval
       THEN /\ ProcessBroadcast
            /\ lastBroadcastTime' = currentTime
       ELSE UNCHANGED <<events, lastBroadcastTime>>
    /\ mainPc' = "Sleep"
    /\ UNCHANGED clientSideVars
    /\ UNCHANGED <<clockVars, serverVars, loopRunning, gameTick, accumulatedTime,
                   lastSimulationTime, currentTime, worldVars, stopPc, runStart,
                   simsThisFrame, stopCompleted, runs, bufferVars, validatorVars,
                   predictorVars, op>>

\* ServerLoop::SleepUntilNextFrame: sleep_for returns once the clock has reached
\* the next tick time; no sleep when behind.
Sleep ==
    /\ mainPc = "Sleep"
    /\ now >= lastSimulationTime + simulationTimestep
    /\ mainPc' = "LoopTest"
    /\ UNCHANGED clientSideVars
    /\ UNCHANGED <<clockVars, serverVars, loopVars, worldVars, stopPc, historyVars,
                   bufferVars, validatorVars, predictorVars, op>>

\* The server is started again after Run has returned.
Restart ==
    /\ mainPc = "Returned"
    /\ runs < MaxRuns
    /\ mainPc' = "Start"
    /\ UNCHANGED clientSideVars
    /\ UNCHANGED <<clockVars, serverVars, loopVars, worldVars, stopPc, historyVars,
                   bufferVars, validatorVars, predictorVars, op>>

(***************************************************************************)
(* Server::Stop on another thread (Server.cpp:135-152)                     *)
(***************************************************************************)

\* The console thread (ServerMain.cpp:48-70, started at line 191) and the
\* signal handler (ServerMain.cpp:33-43, installed at line 167).
Stoppers == {"console", "signal"}

ThreadExists(s) == s = "signal" \/ mainPc \notin {"Initialize", "Start"} \/ runs > 0

\* if(!running) return;
StopEnter(s) ==
    /\ stopPc[s] = "idle"
    /\ ThreadExists(s)
    /\ stopPc' = [stopPc EXCEPT ![s] = IF ~serverRunning THEN "done" ELSE "stopLoop"]
    /\ UNCHANGED clientSideVars
    /\ UNCHANGED <<clockVars, serverVars, loopVars, worldVars, mainPc, historyVars,
                   bufferVars, validatorVars, predictorVars, op>>

\* serverLoop->Stop()
StopLoop(s) ==
    /\ stopPc[s] = "stopLoop"
    /\ loopRunning' = FALSE
    /\ stopPc' = [stopPc EXCEPT ![s] = "stopFlag"]
    /\ UNCHANGED clientSideVars
    /\ UNCHANGED <<clockVars, serverVars, gameTick, accumulatedTime, lastSimulationTime,
                   lastBroadcastTime, currentTime, worldVars, mainPc, historyVars,
                   bufferVars, validatorVars, predictorVars, op>>

\* networkManager->Shutdown(); running = false;
StopFlag(s) ==
    /\ stopPc[s] = "stopFlag"
    /\ serverRunning' = FALSE
    /\ stopCompleted' = TRUE
    /\ stopPc' = [stopPc EXCEPT ![s] = "done"]
    /\ UNCHANGED clientSideVars
    /\ UNCHANGED <<clockVars, initialized, totalCommandsProcessed, totalCommandsRejected,
                   loopVars, worldVars, mainPc, events, runStart, simsThisFrame, runs,
                   bufferVars, validatorVars, predictorVars, op>>

\* The loop clock advances.
AdvanceClock ==
    /\ now < MaxTime
    /\ now' = now + 1
    /\ UNCHANGED clientSideVars
    /\ UNCHANGED <<clockMs, serverVars, loopVars, worldVars, threadVars, historyVars,
                   bufferVars, validatorVars, predictorVars, op>>

(***************************************************************************)
(* The client side as constructed: ConnectionMonitor, EntityInterpolator   *)
(* and MultiplayerClient.                                                  *)
(***************************************************************************)

\* ConnectionMonitor defaults (ConnectionMonitor.h).
timeoutMs == 10000
maxPingHistory == 30
maxTrackedPackets == 100

\* ConnectionMonitor::ConnectionMonitor at clock value t: the field
\* initialisers, and lastPacketTime is the time of construction.
NewConnectionMonitor(t) ==
    [currentPing |-> 0, pingHistory |-> <<>>, jitter |-> 0,
     totalPacketsSent |-> 0, totalPacketsReceived |-> 0, totalPacketsLost |-> 0,
     sentPacketIds |-> <<>>, quality |-> "DISCONNECTED", lastPacketTime |-> t]

\* The system clock reads this many milliseconds when the behaviour begins.
SystemClockStart == 5000

\* std::map with no element.
EmptyMap == [e \in {} |-> <<>>]

\* ClientReconciliation as constructed: no error stored, the correction done,
\* a correction time of 0.15 s, thresholds of 1 and 500 pixels.
errorThresholdPx == 1
snapThresholdPx == 500
correctionTimeSeconds == [num |-> 3, den |-> 20]

NewClientReconciliation ==
    [positionError |-> <<0, 0>>,
     positionCorrectionProgress |-> [num |-> 1, den |-> 1],
     correctionTimeSeconds |-> correctionTimeSeconds,
     errorThresholdPx |-> errorThresholdPx,
     snapThresholdPx |-> snapThresholdPx,
     totalReconciliations |-> 0,
     totalSnaps |-> 0,
     averageError |-> [num |-> 0, den |-> 1]]

\* ProjectileSync::ProjectileSync, and Clear
NewProjectileSync(tick) ==
    [currentTick |-> tick,
     nextProjectileID |-> 1,
     pendingSpawns |-> <<>>,
     pendingImpacts |-> <<>>,
     pendingDeaths |-> <<>>,
     networkIDToProjectile |-> EmptyMap,
     projectileToNetworkID |-> EmptyMap]

NoEvents == [spawns |-> <<>>, impacts |-> <<>>, deaths |-> <<>>]

NoProjectiles == [ids |-> <<>>, registered |-> NoEvents, kept |-> NoEvents]

\* InterestManager::InterestManager: the default Config and no player.
criticalRange == 1000
highRange == 3000
mediumRange == 6000
lowRange == 10000
criticalFrequency == 1
highFrequency == 1
mediumFrequency == 2
lowFrequency == 5

NewInterestManager == [playerCenters |-> EmptyMap]

\* StateSync::StateSync: no interest manager, tick 0, no ship tracked.
NewStateSync ==
    [interestManager |-> FALSE, currentTick |-> 0, shipDeadReckoning |-> EmptyMap]

\* A ship as the synchronisation layer reads and writes it: identity, owner
\* (<<>> when no player owns it), position, velocity, facing in degrees, and
\* shields, hull, energy and fuel in sixteenths of the full level.
FullLevel == 16

NewShip(uuid, owner, position) ==
    [uuid |-> uuid, owner |-> owner, position |-> position, velocity |-> <<0, 0>>,
     facing |-> 0, shields |-> FullLevel, hull |-> FullLevel, energy |-> FullLevel,
     fuel |-> FullLevel]

\* The ships of the world: a ship of player 1 beyond every range of the
\* origin, an empty slot, and a ship no player owns; <<>> is a null pointer.
WorldShips ==
    << <<NewShip("own", <<1>>, <<15000, 0>>)>>, <<>>, <<NewShip("other", <<>>, <<0, 0>>)>> >>

\* PlayerManager::PlayerManager and NetworkPlayer::NetworkPlayer(uuid, name)
NewPlayerManager == [registry |-> {}, shipOwnership |-> EmptyMap, onPlayerLeave |-> FALSE]
NewNetworkPlayer == [ships |-> <<>>]

\* No ReconcilePosition has been called.
NoCorrection ==
    [case |-> "none", predicted |-> <<0, 0>>, server |-> <<0, 0>>,
     position |-> <<[num |-> 0, den |-> 1], [num |-> 0, den |-> 1]>>,
     frames |-> [num |-> 0, den |-> 1],
     updates |-> 0, applied |-> 0, calls |-> 0]

ClientSideConstructed ==
    /\ connectionMonitor = NewConnectionMonitor(clockMs)
    /\ systemMs = SystemClockStart
    /\ entityStates = EmptyMap
    /\ lastInterpolated = EmptyMap
    /\ arrivals = EmptyMap
    /\ state = "DISCONNECTED"
    /\ transport = "idle"
    /\ playerUUID = <<>>
    /\ commandsSent = 0
    /\ stateUpdatesReceived = 0
    /\ clientPredictionErrors = 0
    /\ clientGameTick = 0
    /\ clientCrashed = FALSE
    /\ stateEdges = {}
    /\ sentSequenceNumbers = <<>>
    /\ connectionActiveAt = <<>>
    /\ reconciliation = NewClientReconciliation
    /\ correction = NoCorrection
    /\ projectileSync = NewProjectileSync(0)
    /\ projectileLog = NoProjectiles
    /\ interestManager = NewInterestManager
    /\ stateSync = NewStateSync
    /\ ships = WorldShips
    /\ lastUpdate = [i \in 1..Len(WorldShips) |-> <<>>]
    /\ playerManager = NewPlayerManager
    /\ networkPlayers = [p \in Players |-> NewNetworkPlayer]
    /\ gShutdown = FALSE
    /\ consolePc = "test"
    /\ consoleEnabled = TRUE

(***************************************************************************)
(* Initial state: every object as constructed.                             *)
(***************************************************************************)

NoCall == [name |-> "none"]

Init ==
    /\ now = 0
    /\ clockMs = 0
    /\ initialized = FALSE
    /\ serverRunning = FALSE
    /\ totalCommandsProcessed = 0
    /\ totalCommandsRejected = 0
    /\ loopRunning = FALSE
    /\ gameTick = 0
    /\ accumulatedTime = 0
    /\ lastSimulationTime = 0
    /\ lastBroadcastTime = 0
    /\ currentTime = 0
    /\ worldTick = 0
    /\ snapshots = <<>>
    /\ snapshotsSinceLastKeyframe = 0
    /\ snapshotLog = <<>>
    /\ mainPc = "Initialize"
    /\ stopPc = [s \in Stoppers |-> "idle"]
    /\ events = <<>>
    /\ runStart = 0
    /\ simsThisFrame = 0
    /\ stopCompleted = FALSE
    /\ runs = 0
    /\ commandQueue = <<>>
    /\ playerCommands = [p \in Players |-> <<>>]
    /\ handed = NotWatched
    /\ playerRateLimits = [p \in Players |-> NewRateLimitData]
    /\ accepted = [p \in Players |-> <<>>]
    /\ unconfirmedCommands = <<>>
    /\ lastConfirmedTick = 0
    /\ predictionErrors = 0
    /\ recorded = 0
    /\ ClientSideConstructed
    /\ op = NoCall

NextLoop ==
    \/ Initialize
    \/ Start
    \/ Run
    \/ LoopEnter
    \/ LoopTest
    \/ Frame
    \/ SimulateTick
    \/ SimulateDone
    \/ Broadcast
    \/ Sleep
    \/ Restart
    \/ \E s \in Stoppers : StopEnter(s)
    \/ \E s \in Stoppers : StopLoop(s)
    \/ \E s \in Stoppers : StopFlag(s)
    \/ AdvanceClock

SpecLoop == Init /\ [][NextLoop]_vars

(***************************************************************************)
(* Claims about the server loop                                            *)
(***************************************************************************)

\* The ticks handed to the simulation callback since Run began, in order.
RECURSIVE TicksOf(_, _)
TicksOf(log, kind) ==
    IF log = <<>> THEN <<>>
    ELSE IF Head(log).kind = kind
         THEN <<Head(log).tick>> \o TicksOf(Tail(log), kind)
         ELSE TicksOf(Tail(log), kind)

SimulatedTicks == TicksOf(events, "simulate")

\* C1: once a Stop request has run to completion on a started server, Run
\* returns after at most the iteration in flight: the main thread is never
\* inside the loop with the loop's running flag set (no later Stop can clear
\* it, Server::Stop returns at once when Server::running is false).
C1_StopNeverLost ==
    (stopCompleted /\ mainPc \in LoopPcs) => ~loopRunning

\* C6: every broadcast callback made for tick t comes after the snapshot of
\* tick t was created.
C6_BroadcastAfterSnapshot ==
    \A i \in 1..Len(events) :
        events[i].kind = "broadcast" =>
            \E j \in 1..(i - 1) :
                events[j].kind = "snapshot" /\ events[j].tick = events[i].tick

\* C7: within one Run the simulation callback gets the ticks 0, 1, 2, ... in
\* order, each once, and when the catch-up loop of an iteration has ended the
\* number of callbacks made equals the number of whole simulation steps between
\* the start of Run and the iteration's clock reading.
C7_CatchUp ==
    /\ \A i \in 1..Len(SimulatedTicks) : SimulatedTicks[i] = i - 1
    /\ mainPc \in {"Broadcast", "Sleep"} =>
           Len(SimulatedTicks) = (currentTime - runStart) \div simulationTimestep

\* C7 witness: an iteration that followed a stall of at least two steps has
\* made its simulation callbacks back to back.
C7_Witness ==
    /\ mainPc = "Sleep"
    /\ simsThisFrame >= 2
    /\ Len(SimulatedTicks) >= 3

\* C8: after the loop has run at least one simulation tick and has been
\* stopped, GetGameTick() is the tick most recently handed to the simulation
\* callback.
C8_GameTickIsLastSimulated ==
    (mainPc = "Returned" /\ SimulatedTicks # <<>>) =>
        gameTick = SimulatedTicks[Len(SimulatedTicks)]

(***************************************************************************)
(* The command buffer in the server: commands arrive, ticks are simulated. *)
(* The loop's timing is left out of this specification: the next tick may  *)
(* be simulated at any moment.                                             *)
(***************************************************************************)

\* The server has simulated this many ticks without commands when the
\* specification starts (enough for the tick window of the validator to lie
\* above zero and for the prune of ProcessCommands to act), and simulates at
\* most MaxServerTicks more.
FirstTicks == {PruneKeepTicks}
MaxServerTicks == 2

\* The ticks commands are sent for: the first ticks simulated, and one above
\* the sanity ceiling.
CommandTicks == {PruneKeepTicks, PruneKeepTicks + 1, TickCeiling + 1}

CommandInputs ==
    {PlayerCommand(p, t, s) : p \in Players, t \in CommandTicks, s \in SequenceNumbers}

\* The snapshot manager after `n` ticks simulated from construction, none
\* forced: the counter runs 0, 1, ..., keyframeInterval and the snapshot made
\* when it has reached keyframeInterval is a keyframe.
LogAfter(n) ==
    [i \in 1..n |-> Snapshot(i, i - 1, i % (keyframeInterval + 1) = 0, FALSE)]

ManagerAfter(n) ==
    [ring |-> SubSeq(LogAfter(n), IF n > historySize THEN n - historySize + 1 ELSE 1, n),
     since |-> n % (keyframeInterval + 1),
     log |-> LogAfter(n)]

ServerSimulating(watch) ==
    /\ now = 0
    /\ clockMs = 0
    /\ initialized = TRUE
    /\ serverRunning = TRUE
    /\ totalCommandsProcessed = 0
    /\ totalCommandsRejected = 0
    /\ loopRunning = TRUE
    /\ gameTick \in FirstTicks
    /\ accumulatedTime = 0
    /\ lastSimulationTime = 0
    /\ lastBroadcastTime = 0
    /\ currentTime = 0
    /\ worldTick = gameTick
    /\ snapshots = ManagerAfter(gameTick).ring
    /\ snapshotsSinceLastKeyframe = ManagerAfter(gameTick).since
    /\ snapshotLog = <<>>
    /\ mainPc = "Simulate"
    /\ stopPc = [s \in Stoppers |-> "idle"]
    /\ events = <<>>
    /\ runStart = 0
    /\ simsThisFrame = 0
    /\ stopCompleted = FALSE
    /\ runs = 1
    /\ commandQueue = <<>>
    /\ playerCommands = [p \in Players |-> <<>>]
    /\ handed = watch
    /\ playerRateLimits = [p \in Players |-> NewRateLimitData]
    /\ accepted = [p \in Players |-> <<>>]
    /\ unconfirmedCommands = <<>>
    /\ lastConfirmedTick = 0
    /\ predictionErrors = 0
    /\ recorded = 0
    /\ ClientSideConstructed
    /\ op = NoCall

InitCommands == ServerSimulating(NotWatched)

\* CommandBuffer::AddCommand
AddCommand(c) ==
    LET ok == AddCommandAccepts(commandQueue, playerCommands, c)
    IN  /\ IF ok
           THEN /\ commandQueue' = MultimapEmplace(commandQueue, c)
                /\ playerCommands' = [playerCommands EXCEPT ![c.playerUUID] = Append(@, c)]
                /\ handed' = Counted(handed,
                                   [b \in DOMAIN handed.count \cup {c} |->
                                       IF b = c THEN 0 ELSE handed.count[b]])
           ELSE UNCHANGED <<commandQueue, playerCommands, handed>>
        /\ op' = [name |-> "AddCommand", command |-> c, ret |-> ok]
        /\ UNCHANGED clientSideVars
        /\ UNCHANGED <<clockVars, serverVars, loopVars, worldVars, threadVars, historyVars,
                       validatorVars, predictorVars>>

\* CommandBuffer::GetCommandsForTick
GetCommandsForTickCall(tick) ==
    /\ op' = [name |-> "GetCommandsForTick", tick |-> tick,
              ret |-> GetCommandsForTick(commandQueue, tick)]
    /\ UNCHANGED clientSideVars
    /\ UNCHANGED <<clockVars, serverVars, loopVars, worldVars, threadVars, historyVars,
                   bufferVars, validatorVars, predictorVars>>

\* CommandBuffer::PruneOlderThan
PruneOlderThan(tick) ==
    /\ commandQueue' = PruneQueue(commandQueue, tick)
    /\ playerCommands' = PruneIndex(playerCommands, tick)
    /\ handed' = Counted(handed, [b \in Buffered(commandQueue') |-> handed.count[b]])
    /\ op' = [name |-> "PruneOlderThan", tick |-> tick,
              removed |-> Len(commandQueue) - Len(PruneQueue(commandQueue, tick))]
    /\ UNCHANGED clientSideVars
    /\ UNCHANGED <<clockVars, serverVars, loopVars, worldVars, threadVars, historyVars,
                   validatorVars, predictorVars>>

\* CommandBuffer::Clear
Clear ==
    /\ commandQueue' = <<>>
    /\ playerCommands' = [p \in Players |-> <<>>]
    /\ handed' = Counted(handed, NoneHanded)
    /\ op' = [name |-> "Clear"]
    /\ UNCHANGED clientSideVars
    /\ UNCHANGED <<clockVars, serverVars, loopVars, worldVars, threadVars, historyVars,
                   validatorVars, predictorVars>>

\* One simulation tick of the server: ServerLoop::ProcessSimulation, which
\* makes the simulation callback, Server::OnSimulationTick.
ServerTickWithin(ticks) ==
    /\ \E first \in FirstTicks : first <= gameTick /\ gameTick < first + ticks
    /\ ProcessSimulation
    /\ UNCHANGED clientSideVars
    /\ UNCHANGED <<clockVars, initialized, serverRunning, loopRunning, accumulatedTime,
                   lastSimulationTime, lastBroadcastTime, currentTime, threadVars,
                   historyVars, predictorVars>>

ServerTick == ServerTickWithin(MaxServerTicks)

NextCommands ==
    \/ \E c \in CommandInputs : AddCommand(c)
    \/ \E t \in CommandTicks : GetCommandsForTickCall(t)
    \/ \E t \in CommandTicks : PruneOlderThan(t)
    \/ Clear
    \/ ServerTick

SpecCommands == InitCommands /\ [][NextCommands]_vars

\* (player, tick, sequence) of two commands agree.
SameKey(a, b) ==
    /\ a.playerUUID = b.playerUUID
    /\ a.gameTick = b.gameTick
    /\ a.sequenceNumber = b.sequenceNumber

\* How many elements of a sequence have the key of `c`.
Occurrences(seq, c) == Cardinality({i \in 1..Len(seq) : SameKey(seq[i], c)})

\* C2: within one server tick the commands buffered for that tick are applied
\* in ascending (player UUID, sequence number) order, whatever the order in
\* which they were added.
C2_AppliedInUuidSequenceOrder ==
    op.name = "ProcessCommands" =>
        \A i, j \in 1..Len(op.applied) :
            i < j =>
                \/ op.applied[i].playerUUID < op.applied[j].playerUUID
                \/ /\ op.applied[i].playerUUID = op.applied[j].playerUUID
                   /\ op.applied[i].sequenceNumber <= op.applied[j].sequenceNumber

\* C9: GetCommandsForTick(t) returns exactly the buffered commands whose tick
\* is t, none missing and none with another tick, ordered by ascending
\* sequence number.
C9_ExactInSequenceOrder ==
    op.name = "GetCommandsForTick" =>
        /\ \A i \in 1..Len(op.ret) : op.ret[i].gameTick = op.tick
        /\ \A i \in 1..Len(commandQueue) :
               commandQueue[i].gameTick = op.tick =>
                   Occurrences(op.ret, commandQueue[i]) = 1
        /\ \A i \in 1..Len(op.ret) : Occurrences(commandQueue, op.ret[i]) = 1
        /\ \A i, j \in 1..Len(op.ret) :
               i < j => op.ret[i].sequenceNumber <= op.ret[j].sequenceNumber

\* C10: AddCommand returns false and leaves the buffer unchanged when the
\* command is malformed, when a command with the same (player, tick, sequence)
\* is already buffered, or when the buffer already holds the maximum number of
\* commands; otherwise it stores the command and returns true.  So the command
\* count never exceeds the cap and no two buffered commands share
\* (player, tick, sequence).
C10_AddCommandStep ==
    op'.name = "AddCommand" =>
        LET c == op'.command
        IN  IF \/ c.playerUUID \notin Players
               \/ c.gameTick > TickCeiling
               \/ Occurrences(commandQueue, c) > 0
               \/ Len(commandQueue) >= maxBufferSize
            THEN op'.ret = FALSE /\ UNCHANGED bufferVars
            ELSE /\ op'.ret = TRUE
                 /\ Len(commandQueue') = Len(commandQueue) + 1
                 /\ Occurrences(commandQueue', c) = 1
                 /\ \A i \in 1..Len(commandQueue) :
                        Occurrences(commandQueue', commandQueue[i]) = 1

C10_CapAndNoDuplicates ==
    /\ Len(commandQueue) <= maxBufferSize
    /\ \A i \in 1..Len(commandQueue) : Occurrences(commandQueue, commandQueue[i]) = 1

C11_PruneStep ==
    op'.name = "PruneOlderThan" =>
        /\ commandQueue' = SelectSeq(commandQueue, LAMBDA c : c.gameTick >= op'.tick)
        /\ \A p \in Players :
               playerCommands'[p] =
                   SelectSeq(playerCommands[p], LAMBDA c : c.gameTick >= op'.tick)

C11_IndexHoldsQueue ==
    /\ \A i \in 1..Len(commandQueue) :
           Occurrences(playerCommands[commandQueue[i].playerUUID], commandQueue[i]) = 1
    /\ \A p \in Players : \A i \in 1..Len(playerCommands[p]) :
           /\ playerCommands[p][i].playerUUID = p
           /\ Occurrences(commandQueue, playerCommands[p][i]) = 1

C11_PruneExactIndexConsistent == [][C11_PruneStep]_vars /\ []C11_IndexHoldsQueue

\* A prune has removed commands and kept others.
C11_Witness ==
    /\ op.name = "PruneOlderThan"
    /\ op.removed > 0
    /\ commandQueue # <<>>
    /\ \A i \in 1..Len(commandQueue) : commandQueue[i].gameTick >= op.tick

(***************************************************************************)
(* The command validator on its own: commands of any tick are validated    *)
(* against any current tick while the rate limiter's clock advances.       *)
(***************************************************************************)

\* The milliseconds the rate limiter's clock advances in one step, and its end.
ClockStepMs == 500
MaxClockMs == 1000

\* A player's commandsInWindow is not driven above this.
MaxCommandsInWindow == 3

\* The current ticks and the command ticks of the validator's calls: the
\* start of the game, the edges of the window around tick 1000, and a tick
\* above the sanity ceiling.
CurrentTicks == {0, 1000}
ValidatedTicks ==
    {0, 1000 - maxPastTicks - 1, 1000 - maxPastTicks,
     1000 + maxFutureTicks, 1000 + maxFutureTicks + 1, TickCeiling + 1}

ValidatorInputs == {PlayerCommand(p, t, 0) : p \in Players, t \in ValidatedTicks}

\* CommandValidator::ValidateCommand
ValidateCommandCall(c, current) ==
    LET v == ValidateCommand(playerRateLimits, c, current, clockMs)
    IN  /\ \A p \in Players : v.limits[p].commandsInWindow <= MaxCommandsInWindow
        /\ playerRateLimits' = v.limits
        /\ accepted' = IF v.result = "VALID"
                       THEN [accepted EXCEPT ![c.playerUUID] = Append(@, clockMs)]
                       ELSE accepted
        /\ op' = [name |-> "ValidateCommand", command |-> c, currentTick |-> current,
                  result |-> v.result]
        /\ UNCHANGED clientSideVars
        /\ UNCHANGED <<clockVars, serverVars, loopVars, worldVars, threadVars, historyVars,
                       bufferVars, predictorVars>>

\* CommandValidator::ClearPlayerTracking
ClearPlayerTracking(p) ==
    /\ playerRateLimits' = [playerRateLimits EXCEPT ![p] = NewRateLimitData]
    /\ accepted' = [accepted EXCEPT ![p] = <<>>]
    /\ op' = [name |-> "ClearPlayerTracking", player |-> p]
    /\ UNCHANGED clientSideVars
    /\ UNCHANGED <<clockVars, serverVars, loopVars, worldVars, threadVars, historyVars,
                   bufferVars, predictorVars>>

\* The rate limiter's clock advances.
AdvanceClockMs ==
    /\ clockMs < MaxClockMs
    /\ clockMs' = clockMs + ClockStepMs
    /\ UNCHANGED clientSideVars
    /\ UNCHANGED <<now, serverVars, loopVars, worldVars, threadVars, historyVars,
                   bufferVars, validatorVars, predictorVars, op>>

NextValidator ==
    \/ \E c \in ValidatorInputs, current \in CurrentTicks : ValidateCommandCall(c, current)
    \/ \E p \in Players : ClearPlayerTracking(p)
    \/ AdvanceClockMs

SpecValidator == Init /\ [][NextValidator]_vars

\* C3: for every current tick c and every well-formed command with tick t,
\* ValidateCommand returns TOO_OLD exactly when t < c - maxPastTicks and
\* TOO_FUTURE exactly when t > c + maxFutureTicks, the bounds being taken as
\* mathematical integers.
C3_TickWindowAsIntegers ==
    (op.name = "ValidateCommand" /\ op.command.gameTick <= TickCeiling) =>
        /\ op.result = "TOO_OLD" <=> op.command.gameTick < op.currentTick - maxPastTicks
        /\ op.result = "TOO_FUTURE" <=> op.command.gameTick > op.currentTick + maxFutureTicks

\* The VALID results of a player in the 1000 ms that begin at `from`.
AcceptedInSpan(p, from) ==
    Cardinality({k \in 1..Len(accepted[p]) :
                    from <= accepted[p][k] /\ accepted[p][k] < from + RATE_LIMIT_WINDOW_MS})

\* The VALID results of a player since the player's current window began.
AcceptedInWindow(p) ==
    Cardinality({k \in 1..Len(accepted[p]) :
                    accepted[p][k] >= playerRateLimits[p].windowStartTime})

maxUnconfirmedCommands == 3

\* The client records at most this many commands, and the predictor's error
\* counter is not driven above MaxPredictionErrors.
MaxRecorded == 4
MaxPredictionErrors == 2

\* The player of the client, the ticks its commands are recorded for and the
\* ticks of the server states it reconciles with.
LocalPlayer == CHOOSE p \in Players : TRUE
RecordedTicks == {100, 101, 102}
ServerTicks == {99, 100, 101, 102}

\* GameState::Step: the tick counter of the world advances by one.
GameStateStep(tick) == tick + 1

\* Predictor::ApplyCommand: a placeholder that leaves the world as it is.
ApplyCommand(tick, c) == tick

\* A vector over the limit drops what was pushed last.
RecordInto_KeepOldest(commands, c) ==
    IF Len(commands) + 1 > maxUnconfirmedCommands
    THEN commands
    ELSE Append(commands, c)

\* Predictor::RecordCommand on the vector: push_back, then drop the front
\* when over the limit.
RecordInto(commands, c) ==
    IF Len(commands) + 1 > maxUnconfirmedCommands
    THEN Tail(Append(commands, c))
    ELSE Append(commands, c)

\* The remove_if of ReconcileWithServer (Predictor.cpp:73-79).
Confirmed(c, serverTick) == c.gameTick <= serverTick

RemoveConfirmed(commands, serverTick) ==
    SelectSeq(commands, LAMBDA c : ~Confirmed(c, serverTick))

\* The replay loop of ReconcileWithServer (Predictor.cpp:88-92): the tick of
\* the copy after every command of the vector was applied and stepped, and
\* the commands in the order they were applied.
RECURSIVE Replay(_, _, _)
Replay(tick, commands, applied) ==
    IF commands = <<>>
    THEN [tick |-> tick, applied |-> applied]
    ELSE Replay(GameStateStep(ApplyCommand(tick, Head(commands))), Tail(commands),
                Append(applied, Head(commands)))

\* Predictor::PredictionMatches: the ticks are compared.
PredictionMatches(predictedTick, serverStateTick) == predictedTick = serverStateTick

\* Predictor::RecordCommand; the command has the next sequence number of the
\* client (MultiplayerClient::SendCommand).
RecordCommand(tick) ==
    /\ recorded < MaxRecorded
    /\ unconfirmedCommands' =
           RecordInto(unconfirmedCommands, PlayerCommand(LocalPlayer, tick, recorded))
    /\ recorded' = recorded + 1
    /\ op' = [name |-> "RecordCommand", tick |-> tick]
    /\ UNCHANGED clientSideVars
    /\ UNCHANGED <<clockVars, serverVars, loopVars, worldVars, threadVars, historyVars,
                   bufferVars, validatorVars, lastConfirmedTick, predictionErrors>>

\* Predictor::ReconcileWithServer with a server world of tick `serverTick`
\* (MultiplayerClient::ReconcileWithServer passes the tick of the state).
ReconcileWithServer(serverTick) ==
    LET remaining == RemoveConfirmed(unconfirmedCommands, serverTick)
        replay == Replay(serverTick, remaining, <<>>)
        mismatch == remaining # <<>> /\ ~PredictionMatches(replay.tick, serverTick)
    IN  /\ mismatch => predictionErrors < MaxPredictionErrors
        /\ lastConfirmedTick' = serverTick
        /\ unconfirmedCommands' = remaining
        /\ predictionErrors' = IF mismatch THEN predictionErrors + 1 ELSE predictionErrors
        /\ op' = [name |-> "ReconcileWithServer", serverTick |-> serverTick,
                  before |-> unconfirmedCommands, replayed |-> replay.applied,
                  tick |-> replay.tick]
        /\ UNCHANGED clientSideVars
        /\ UNCHANGED <<clockVars, serverVars, loopVars, worldVars, threadVars, historyVars,
                       bufferVars, validatorVars, recorded>>

\* Predictor::Clear
PredictorClear ==
    /\ unconfirmedCommands' = <<>>
    /\ lastConfirmedTick' = 0
    /\ predictionErrors' = 0
    /\ op' = [name |-> "PredictorClear"]
    /\ UNCHANGED clientSideVars
    /\ UNCHANGED <<clockVars, serverVars, loopVars, worldVars, threadVars, historyVars,
                   bufferVars, validatorVars, recorded>>

NextPredictor ==
    \/ \E t \in RecordedTicks : RecordCommand(t)
    \/ \E t \in ServerTicks : ReconcileWithServer(t)
    \/ PredictorClear

SpecPredictor == Init /\ [][NextPredictor]_vars

\* C5: ReconcileWithServer(serverWorld, serverTick) discards exactly the
\* recorded unconfirmed commands with tick <= serverTick and replays all the
\* others, each once, on a copy of the server world in ascending
\* (tick, sequence) order, returning a world whose tick is >= serverTick.
C5_ReconcileReplaysInTickOrder ==
    op.name = "ReconcileWithServer" =>
        /\ unconfirmedCommands =
               SelectSeq(op.before, LAMBDA c : c.gameTick > op.serverTick)
        /\ Len(op.replayed) = Len(unconfirmedCommands)
        /\ \A i \in 1..Len(unconfirmedCommands) :
               Occurrences(op.replayed, unconfirmedCommands[i]) = 1
        /\ \A i, j \in 1..Len(op.replayed) :
               i < j =>
                   \/ op.replayed[i].gameTick < op.replayed[j].gameTick
                   \/ /\ op.replayed[i].gameTick = op.replayed[j].gameTick
                      /\ op.replayed[i].sequenceNumber < op.replayed[j].sequenceNumber
        /\ op.tick >= op.serverTick

(***************************************************************************)
(* The snapshot manager on its own: snapshots are created, forced or not,  *)
(* and looked up by tick.                                                  *)
(***************************************************************************)

\* At most this many snapshots are created.
MaxSnapshots == 6

\* SnapshotManager::CreateSnapshot of the world after one more step.  The tick
\* label follows the latest one, or starts again from 0 as the tick counter
\* of the loop does when Run is entered again.
CreateSnapshotCall(forceKeyframe, fromZero) ==
    /\ Len(snapshotLog) < MaxSnapshots
    /\ worldTick' = worldTick + 1
    /\ SnapshotCreated(worldTick + 1,
                       IF fromZero THEN 0 ELSE LatestSnapshotTick(snapshots) + 1,
                       forceKeyframe)
    /\ op' = [name |-> "CreateSnapshot", forceKeyframe |-> forceKeyframe]
    /\ UNCHANGED clientSideVars
    /\ UNCHANGED <<clockVars, serverVars, loopVars, threadVars, historyVars, bufferVars,
                   validatorVars, predictorVars>>

\* SnapshotManager::GetLatestSnapshot
GetLatestSnapshotCall ==
    /\ op' = [name |-> "GetLatestSnapshot", ret |-> GetLatestSnapshot(snapshots)]
    /\ UNCHANGED clientSideVars
    /\ UNCHANGED <<clockVars, serverVars, loopVars, worldVars, threadVars, historyVars,
                   bufferVars, validatorVars, predictorVars>>

\* SnapshotManager::GetSnapshotAtTick
GetSnapshotAtTickCall(tick) ==
    /\ op' = [name |-> "GetSnapshotAtTick", tick |-> tick,
              ret |-> GetSnapshotAtTick(snapshots, tick)]
    /\ UNCHANGED clientSideVars
    /\ UNCHANGED <<clockVars, serverVars, loopVars, worldVars, threadVars, historyVars,
                   bufferVars, validatorVars, predictorVars>>

NextSnapshots ==
    \/ \E forceKeyframe \in BOOLEAN, fromZero \in BOOLEAN :
           CreateSnapshotCall(forceKeyframe, fromZero)
    \/ GetLatestSnapshotCall
    \/ \E tick \in 0..MaxSnapshots : GetSnapshotAtTickCall(tick)

SpecSnapshots == Init /\ [][NextSnapshots]_vars

\* C12: with keyframe interval K and no forced keyframes, the first snapshot
\* created is a keyframe and after it every K-th snapshot is a keyframe: the
\* keyframes are the snapshots of index 0, K, 2K, ...
C12_KeyframeEveryKth ==
    (\A i \in 1..Len(snapshotLog) : ~snapshotLog[i].forced) =>
        \A i \in 1..Len(snapshotLog) :
            snapshotLog[i].isKeyframe <=> (i - 1) % keyframeInterval = 0

\* The snapshots that were created and are no longer in the ring.
EvictedSnapshots ==
    {snapshotLog[i] : i \in 1..(Len(snapshotLog) - Len(snapshots))}

\* C13: after M CreateSnapshot calls on a manager with history size N exactly
\* min(N, M) snapshots are retained, the most recent ones in insertion order;
\* GetLatestSnapshot is the last one created, and GetSnapshotAtTick finds a
\* retained snapshot of the tick or nothing, never an evicted snapshot.
C13_RingHoldsMostRecent ==
    /\ Len(snapshots) =
           IF Len(snapshotLog) < historySize THEN Len(snapshotLog) ELSE historySize
    /\ snapshots = SubSeq(snapshotLog, Len(snapshotLog) - Len(snapshots) + 1,
                          Len(snapshotLog))
    /\ op.name = "GetLatestSnapshot" =>
           op.ret = IF snapshotLog = <<>> THEN <<>>
                    ELSE <<snapshotLog[Len(snapshotLog)]>>
    /\ op.name = "GetSnapshotAtTick" =>
           /\ \A i \in 1..Len(op.ret) :
                  /\ op.ret[i].gameTick = op.tick
                  /\ \E j \in 1..Len(snapshots) : snapshots[j] = op.ret[i]
                  /\ op.ret[i] \notin EvictedSnapshots
           /\ (\A j \in 1..Len(snapshots) : snapshots[j].gameTick # op.tick) =>
                  op.ret = <<>>

\* More snapshots were created than the ring holds, and the tick of an
\* evicted one is looked up and not found.
C13_Witness ==
    /\ op.name = "GetSnapshotAtTick"
    /\ op.ret = <<>>
    /\ Len(snapshotLog) > historySize
    /\ \E e \in EvictedSnapshots : e.gameTick = op.tick


(***************************************************************************)
(* ConnectionMonitor (ConnectionMonitor.cpp) and the monitor on its own.   *)
(* A call reads the clock once: no time passes inside a call.              *)
(***************************************************************************)

\* The monitor records at most this many pings, and counts at most this many
\* packets sent and this many received.
MaxPings == 2
MaxPackets == 3

\* The ping samples, the packet ids and the steps of the steady clock: the
\* clock stands exactly at the timeout or one millisecond past it.
PingValues == {20, 600}
PacketIds == {0, 1}
MonitorClockSteps == {timeoutMs, timeoutMs + 1}
MaxMonitorClockMs == 2 * timeoutMs + 2

RECURSIVE SumSeq(_)
SumSeq(q) == IF q = <<>> THEN 0 ELSE Head(q) + SumSeq(Tail(q))

RECURSIVE GCD(_, _)
GCD(a, b) == IF b = 0 THEN a ELSE GCD(b, a % b)

\* The double num / den * 100 as an exact fraction in lowest terms (the
\* rounding of the double is left out).
Percent(num, den) ==
    LET g == GCD((IF num < 0 THEN -num ELSE num) * 100, den)
    IN  [num |-> (num * 100) \div g, den |-> den \div g]

\* p < k for a percentage p and an integer k
PercentBelow(p, k) == p.num < k * p.den

\* static_cast<uint32_t>(sqrt(v)) for a variance whose root is at most `hi`
ISqrt(v, hi) == CHOOSE r \in 0..hi : r * r <= v /\ (r + 1) * (r + 1) > v

\* deque push_back, then pop_front when over the limit
PushBounded(q, x, limit) ==
    IF Len(q) + 1 > limit THEN Tail(Append(q, x)) ELSE Append(q, x)

\* ConnectionMonitor::GetAveragePing
GetAveragePing(m) ==
    IF m.pingHistory = <<>>
    THEN m.currentPing
    ELSE SumSeq(m.pingHistory) \div Len(m.pingHistory)

\* ConnectionMonitor::CalculatePacketLoss
CalculatePacketLoss(m) ==
    IF m.totalPacketsSent = 0
    THEN Percent(0, 1)
    ELSE Percent(m.totalPacketsLost, m.totalPacketsSent)

\* ConnectionMonitor::GetPacketLoss
GetPacketLoss(m) == CalculatePacketLoss(m)

\* ConnectionMonitor::IsTimedOut at clock value t
IsTimedOut(m, t) == t - m.lastPacketTime > timeoutMs

\* ConnectionMonitor::UpdateQuality at clock value t
UpdateQuality(m, t) ==
    LET avgPing == GetAveragePing(m)
        packetLoss == GetPacketLoss(m)
    IN  [m EXCEPT !.quality =
            IF IsTimedOut(m, t) THEN "DISCONNECTED"
            ELSE IF avgPing < 50 /\ PercentBelow(packetLoss, 1) THEN "EXCELLENT"
            ELSE IF avgPing < 100 /\ PercentBelow(packetLoss, 3) THEN "GOOD"
            ELSE IF avgPing < 200 /\ PercentBelow(packetLoss, 10) THEN "FAIR"
            ELSE IF avgPing < 500 /\ PercentBelow(packetLoss, 25) THEN "POOR"
            ELSE "TERRIBLE"]

\* ConnectionMonitor::UpdateJitter: the standard deviation of the history
\* around the (integer) average, truncated.
UpdateJitter(m) ==
    LET n == Len(m.pingHistory)
        mean == GetAveragePing(m)
        squares == [i \in 1..n |-> (m.pingHistory[i] - mean) * (m.pingHistory[i] - mean)]
        largest == SumSeq(m.pingHistory)
    IN  [m EXCEPT !.jitter =
            IF n < 2 THEN 0 ELSE ISqrt(SumSeq(squares) \div n, largest)]

\* ConnectionMonitor::CheckForLostPackets
CheckForLostPackets(m) ==
    IF m.totalPacketsSent > 0 /\ m.totalPacketsReceived < m.totalPacketsSent
    THEN [m EXCEPT !.totalPacketsLost = m.totalPacketsSent - m.totalPacketsReceived]
    ELSE m

\* erase(find(...)): the first occurrence of id leaves the deque
RECURSIVE EraseFirst(_, _)
EraseFirst(q, id) ==
    IF q = <<>> THEN <<>>
    ELSE IF Head(q) = id THEN Tail(q)
    ELSE <<Head(q)>> \o EraseFirst(Tail(q), id)

\* ConnectionMonitor::RecordPing at clock value t: the quality is assessed
\* before lastPacketTime is set.
MonitorRecordPing(m, pingMs, t) ==
    LET pushed == [m EXCEPT !.currentPing = pingMs,
                            !.pingHistory = PushBounded(@, pingMs, maxPingHistory)]
        assessed == UpdateQuality(UpdateJitter(pushed), t)
    IN  [assessed EXCEPT !.lastPacketTime = t]

\* ConnectionMonitor::RecordPacketSent
MonitorRecordPacketSent(m, packetId) ==
    [m EXCEPT !.totalPacketsSent = @ + 1,
              !.sentPacketIds = PushBounded(@, packetId, maxTrackedPackets)]

\* ConnectionMonitor::RecordPacketReceived at clock value t
MonitorRecordPacketReceived(m, packetId, t) ==
    [m EXCEPT !.totalPacketsReceived = @ + 1,
              !.lastPacketTime = t,
              !.sentPacketIds = EraseFirst(@, packetId)]

\* ConnectionMonitor::Update at clock value t
MonitorUpdate(m, t) == UpdateQuality(CheckForLostPackets(m), t)

\* ---- the calls of the monitor's interface

MonitorUnchanged ==
    /\ UNCHANGED <<now, serverVars, loopVars, worldVars, threadVars, historyVars,
                   bufferVars, validatorVars, predictorVars, interpolatorVars,
                   clientVars, componentVars>>

RecordPing(pingMs) ==
    /\ Len(connectionMonitor.pingHistory) < MaxPings
    /\ connectionMonitor' = MonitorRecordPing(connectionMonitor, pingMs, clockMs)
    /\ op' = [name |-> "RecordPing", pingMs |-> pingMs, at |-> clockMs]
    /\ UNCHANGED clockMs
    /\ MonitorUnchanged

RecordPacketSent(packetId) ==
    /\ connectionMonitor.totalPacketsSent < MaxPackets
    /\ connectionMonitor' = MonitorRecordPacketSent(connectionMonitor, packetId)
    /\ op' = [name |-> "RecordPacketSent", packetId |-> packetId]
    /\ UNCHANGED clockMs
    /\ MonitorUnchanged

RecordPacketReceived(packetId) ==
    /\ connectionMonitor.totalPacketsReceived < MaxPackets
    /\ connectionMonitor' = MonitorRecordPacketReceived(connectionMonitor, packetId, clockMs)
    /\ op' = [name |-> "RecordPacketReceived", packetId |-> packetId]
    /\ UNCHANGED clockMs
    /\ MonitorUnchanged

ConnectionMonitorUpdate ==
    /\ connectionMonitor' = MonitorUpdate(connectionMonitor, clockMs)
    /\ op' = [name |-> "ConnectionMonitorUpdate", at |-> clockMs]
    /\ UNCHANGED clockMs
    /\ MonitorUnchanged

\* The steady clock advances.
AdvanceMonitorClock(d) ==
    /\ clockMs + d <= MaxMonitorClockMs
    /\ clockMs' = clockMs + d
    /\ UNCHANGED <<connectionMonitor, op>>
    /\ MonitorUnchanged

NextMonitor ==
    \/ \E pingMs \in PingValues : RecordPing(pingMs)
    \/ \E id \in PacketIds : RecordPacketSent(id)
    \/ \E id \in PacketIds : RecordPacketReceived(id)
    \/ ConnectionMonitorUpdate
    \/ \E d \in MonitorClockSteps : AdvanceMonitorClock(d)

SpecMonitor == Init /\ [][NextMonitor]_vars

\* C17: at any moment, after any sequence of RecordPacketSent,
\* RecordPacketReceived and Update calls, GetPacketLoss() equals
\* (packets sent - packets received) / packets sent x 100, and 0 when nothing
\* was sent.
C17_PacketLossIsSentMinusReceived ==
    GetPacketLoss(connectionMonitor) =
        IF connectionMonitor.totalPacketsSent = 0
        THEN Percent(0, 1)
        ELSE Percent(connectionMonitor.totalPacketsSent
                       - connectionMonitor.totalPacketsReceived,
                     connectionMonitor.totalPacketsSent)

\* C18: every quality classification of the monitor (by RecordPing and by
\* Update) sets the quality to DISCONNECTED if and only if, at that moment,
\* more than timeoutMs has elapsed since the last received packet; the ping a
\* RecordPing call records is a packet received at that moment (op.at is the
\* clock value of the call).
C18_DisconnectedIffTimedOut ==
    op.name \in {"RecordPing", "ConnectionMonitorUpdate"}
        => (connectionMonitor.quality = "DISCONNECTED"
              <=> op.at - connectionMonitor.lastPacketTime > timeoutMs)


(***************************************************************************)
(* EntityInterpolator (EntityInterpolator.cpp) and the interpolator on its *)
(* own.  An EntityState is its game tick, the timestamp its constructor    *)
(* read from the system clock and the x coordinate of its position; the y  *)
(* coordinate and the velocity are computed as x is, the facing is left    *)
(* out.  A coordinate is an exact fraction (the rounding of the double is  *)
(* left out).                                                              *)
(***************************************************************************)

\* EntityInterpolator defaults (EntityInterpolator.h:106) and the age limit of
\* PruneOldSnapshots (EntityInterpolator.cpp:214).
interpolationDelayMs == 100
SnapshotMaxAgeMs == 1000

\* EntityInterpolator::maxSnapshotHistory as configured.
maxSnapshotHistory == 3

\* At most this many states arrive for one entity, and the system clock
\* advances in steps of SystemClockStepMs up to MaxSystemClockMs.
MaxArrivals == 4
SystemClockStepMs == 600
MaxSystemClockMs == SystemClockStart + 3 * SystemClockStepMs

Entities == {1, 2}
Positions == {0, 10}

\* The position of the states of a timeline whose positions are not read.
RestPosition == CHOOSE x \in Positions : \A y \in Positions : x <= y

\* The entity whose states are interpolated.
MovingEntity == CHOOSE e \in Entities : TRUE

\* The fraction n / d (d > 0) in lowest terms.
Fraction(n, d) ==
    LET g == GCD(IF n < 0 THEN -n ELSE n, d)
    IN  [num |-> n \div g, den |-> d \div g]

\* Point(x, ...)
Point(x) == Fraction(x, 1)

\* EntityState::EntityState(tick, pos, ...) at system clock value t
EntityState(tick, pos, t) == [gameTick |-> tick, timestamp |-> t, position |-> pos]

\* EntityState() = default
DefaultEntityState == EntityState(0, Point(0), 0)

\* history.snapshots of an entity; operator[] makes the entry when absent
HistoryOf(states, entityId) ==
    IF entityId \in DOMAIN states THEN states[entityId] ELSE <<>>

MapPut(map, key, value) ==
    [k \in DOMAIN map \cup {key} |-> IF k = key THEN value ELSE map[k]]

\* the while loop of AddSnapshot (EntityInterpolator.cpp:54-55)
Min(a, b) == IF a < b THEN a ELSE b

TrimToCapacity_Back(history) ==
    SubSeq(history, 1, Min(Len(history), maxSnapshotHistory))

RECURSIVE TrimToCapacity(_)
TrimToCapacity(history) ==
    IF Len(history) > maxSnapshotHistory
    THEN TrimToCapacity(Tail(history))
    ELSE history

\* EntityInterpolator::AddSnapshot
AddSnapshotTo(states, entityId, entityState) ==
    MapPut(states, entityId,
           TrimToCapacity(Append(HistoryOf(states, entityId), entityState)))

\* EntityInterpolator::GetRenderTimestamp at system clock value t
GetRenderTimestamp(t) == t - interpolationDelayMs

\* the first loop of PruneOldSnapshots (EntityInterpolator.cpp:218-222)
RECURSIVE DropTooOld(_, _)
DropTooOld(history, pruneThreshold) ==
    IF history # <<>> /\ Head(history).timestamp < pruneThreshold
    THEN DropTooOld(Tail(history), pruneThreshold)
    ELSE history

\* the second loop of PruneOldSnapshots (EntityInterpolator.cpp:225-233)
RECURSIVE DropBeforeRender(_, _)
DropBeforeRender(history, renderTime) ==
    IF Len(history) > 2 /\ Head(history).timestamp < renderTime
    THEN DropBeforeRender(Tail(history), renderTime)
    ELSE history

\* EntityInterpolator::PruneOldSnapshots at system clock value t
PruneOldSnapshots(states, t) ==
    LET renderTime == GetRenderTimestamp(t)
        pruneThreshold == renderTime - SnapshotMaxAgeMs
    IN  [e \in DOMAIN states |->
            DropBeforeRender(DropTooOld(states[e], pruneThreshold), renderTime)]

\* ---- the calls of the interpolator's interface

InterpolatorUnchanged ==
    /\ UNCHANGED <<clockVars, serverVars, loopVars, worldVars, threadVars, historyVars,
                   bufferVars, validatorVars, predictorVars, connectionMonitor,
                   clientVars, componentVars>>

\* AddSnapshot with a state constructed at the moment of the call; its game
\* tick is one more than the tick of the arrival before it.
AddSnapshot(entityId, x) ==
    LET arrived == HistoryOf(arrivals, entityId)
        tick == IF arrived = <<>> THEN 1 ELSE arrived[Len(arrived)].gameTick + 1
        entityState == EntityState(tick, Point(x), systemMs)
    IN  /\ Len(arrived) < MaxArrivals
        /\ entityStates' = AddSnapshotTo(entityStates, entityId, entityState)
        /\ lastInterpolated' =
               IF entityId \in DOMAIN lastInterpolated
               THEN lastInterpolated
               ELSE MapPut(lastInterpolated, entityId, DefaultEntityState)
        /\ arrivals' = MapPut(arrivals, entityId, Append(arrived, entityState))
        /\ op' = [name |-> "AddSnapshot", entityId |-> entityId]
        /\ UNCHANGED systemMs
        /\ InterpolatorUnchanged

\* The first index i with snapshots[i].timestamp <= renderTime <=
\* snapshots[i + 1].timestamp, or 0 (EntityInterpolator.cpp:79-88).
BracketIndex(history, renderTime) ==
    LET found == {i \in 1..(Len(history) - 1) :
                     /\ history[i].timestamp <= renderTime
                     /\ history[i + 1].timestamp >= renderTime}
    IN  IF found = {} THEN 0 ELSE CHOOSE i \in found : \A j \in found : i <= j

\* max(0.0, min(1.0, num / den)) as a fraction
ClampedAlpha(num, den) ==
    IF num < 0 THEN Fraction(0, 1)
    ELSE IF num > den THEN Fraction(1, 1)
    ELSE Fraction(num, den)

\* from + (to - from) * alpha on fractions
Lerp_From(from, to, alpha) == from

Lerp(from, to, alpha) ==
    Fraction(from.num * to.den * alpha.den
               + (to.num * from.den - from.num * to.den) * alpha.num,
             from.den * to.den * alpha.den)

\* EntityInterpolator::Interpolate; the casts to uint64_t truncate.
Interpolate(from, to, alpha) ==
    [position |-> Lerp(from.position, to.position, alpha),
     timestamp |-> from.timestamp
                     + ((to.timestamp - from.timestamp) * alpha.num) \div alpha.den,
     gameTick |-> from.gameTick
                     + ((to.gameTick - from.gameTick) * alpha.num) \div alpha.den]

\* EntityInterpolator::GetInterpolatedState at system clock value t: the
\* state the returned pointer refers to (<<>> for nullptr), and whether it
\* was written to the cache lastInterpolated.
GetInterpolatedState(states, entityId, t) ==
    LET history == states[entityId]
        renderTime == GetRenderTimestamp(t)
        i == BracketIndex(history, renderTime)
        before == history[i]
        after == history[i + 1]
        timeDiff == after.timestamp - before.timestamp
        alpha == ClampedAlpha(renderTime - before.timestamp, timeDiff)
    IN  IF entityId \notin DOMAIN states
        THEN [state |-> <<>>, cached |-> FALSE]
        ELSE IF Len(history) < 2
        THEN [state |-> IF history = <<>> THEN <<>> ELSE <<history[Len(history)]>>,
              cached |-> FALSE]
        ELSE IF i = 0
        THEN [state |-> <<history[Len(history)]>>, cached |-> FALSE]
        ELSE IF timeDiff = 0
        THEN [state |-> <<after>>, cached |-> FALSE]
        ELSE [state |-> <<Interpolate(before, after, alpha)>>, cached |-> TRUE]

GetInterpolatedStateCall(entityId) ==
    LET found == GetInterpolatedState(entityStates, entityId, systemMs)
    IN  /\ lastInterpolated' =
               IF found.cached
               THEN [lastInterpolated EXCEPT ![entityId] = found.state[1]]
               ELSE lastInterpolated
        /\ op' = [name |-> "GetInterpolatedState", entityId |-> entityId,
                  renderTime |-> GetRenderTimestamp(systemMs), state |-> found.state]
        /\ UNCHANGED <<systemMs, entityStates, arrivals>>
        /\ InterpolatorUnchanged

\* EntityInterpolator::Update
InterpolatorUpdate ==
    /\ entityStates' = PruneOldSnapshots(entityStates, systemMs)
    /\ arrivals' = [e \in DOMAIN arrivals |->
                        IF entityStates'[e] = entityStates[e]
                        THEN arrivals[e] ELSE entityStates'[e]]
    /\ op' = [name |-> "InterpolatorUpdate", before |-> entityStates,
              renderTime |-> GetRenderTimestamp(systemMs)]
    /\ UNCHANGED <<systemMs, lastInterpolated>>
    /\ InterpolatorUnchanged

\* EntityInterpolator::RemoveEntity
RemoveEntity(entityId) ==
    /\ entityId \in DOMAIN entityStates
    /\ entityStates' = [e \in DOMAIN entityStates \ {entityId} |-> entityStates[e]]
    /\ lastInterpolated' =
           [e \in DOMAIN lastInterpolated \ {entityId} |-> lastInterpolated[e]]
    /\ arrivals' = [e \in DOMAIN arrivals \ {entityId} |-> arrivals[e]]
    /\ op' = [name |-> "RemoveEntity", entityId |-> entityId]
    /\ UNCHANGED systemMs
    /\ InterpolatorUnchanged

\* EntityInterpolator::Clear
InterpolatorClear ==
    /\ entityStates # EmptyMap
    /\ entityStates' = EmptyMap
    /\ lastInterpolated' = EmptyMap
    /\ arrivals' = EmptyMap
    /\ op' = [name |-> "InterpolatorClear"]
    /\ UNCHANGED systemMs
    /\ InterpolatorUnchanged

\* The system clock advances.
AdvanceSystemClock ==
    /\ systemMs + SystemClockStepMs <= MaxSystemClockMs
    /\ systemMs' = systemMs + SystemClockStepMs
    /\ UNCHANGED <<entityStates, lastInterpolated, arrivals, op>>
    /\ InterpolatorUnchanged

NextInterpolator ==
    \/ \E e \in Entities : AddSnapshot(e, RestPosition)
    \/ InterpolatorUpdate
    \/ \E e \in Entities : RemoveEntity(e)
    \/ InterpolatorClear
    \/ AdvanceSystemClock

SpecInterpolator == Init /\ [][NextInterpolator]_vars

\* The entries an Update took from the front of a timeline.
RemovedByUpdate(e) ==
    SubSeq(op.before[e], 1, Len(op.before[e]) - Len(entityStates[e]))

\* C19: EntityInterpolator::Update removes from an entity's timeline only
\* entries older than renderTime - 1 s, and never leaves a timeline that held
\* 2 or more entries with fewer than 2.
C19_PruneOnlyOldKeepTwo ==
    op.name = "InterpolatorUpdate" =>
        \A e \in DOMAIN op.before :
            /\ \A i \in 1..Len(RemovedByUpdate(e)) :
                   RemovedByUpdate(e)[i].timestamp < op.renderTime - SnapshotMaxAgeMs
            /\ Len(op.before[e]) >= 2 => Len(entityStates[e]) >= 2

\* The last n elements of a sequence.
LastN(q, n) == SubSeq(q, Len(q) - n + 1, Len(q))

\* C20: after any sequence of AddSnapshot calls for one entity with history
\* capacity K = maxSnapshotHistory and no pruning in between, the entity's
\* timeline holds exactly the last min(K, number of arrivals) states, in
\* arrival order.
C20_TimelineHoldsLastK ==
    /\ DOMAIN entityStates = DOMAIN arrivals
    /\ \A e \in DOMAIN entityStates :
           entityStates[e] =
               LastN(arrivals[e], Min(maxSnapshotHistory, Len(arrivals[e])))

\* More states than the capacity arrived for an entity since its timeline was
\* last pruned, and the oldest of them is gone.
C20_Witness ==
    /\ op.name = "AddSnapshot"
    /\ Len(arrivals[op.entityId]) > maxSnapshotHistory
    /\ Len(entityStates[op.entityId]) = maxSnapshotHistory
    /\ entityStates[op.entityId][1] # arrivals[op.entityId][1]

(***************************************************************************)
(* ClientReconciliation (ClientReconciliation.cpp), the position channel,  *)
(* and the reconciler on its own.  Doubles are exact fractions and the     *)
(* position errors handed in have whole lengths, so that no rounding is    *)
(* modelled; the velocity and facing channels, which Update advances in    *)
(* the same way, are left out.                                             *)
(***************************************************************************)

\* At most this many ReconcilePosition calls and, after each of them, this
\* many Update calls.
MaxReconcileCalls == 2
MaxUpdates == 10

\* The values the setters are called with: thresholds in pixels (a snap
\* threshold below and above the error thresholds) and correction times in
\* seconds (less than a frame, and 2.5 frames; 9 frames is the default).
ErrorThresholds == {errorThresholdPx, 10}
SnapThresholds == {3, snapThresholdPx}
CorrectionTimes == {Fraction(0, 1), Fraction(1, 24)}

\* The predicted position of the calls, and the errors of the server's
\* positions against it: each of a whole length (1, 5, 500, 600).
PredictedPosition == <<100, 100>>
PositionErrors == {<<1, 0>>, <<3, 4>>, <<300, 400>>, <<600, 0>>}

FractionSum(a, b) == Fraction(a.num * b.den + b.num * a.den, a.den * b.den)
FractionProduct(a, b) == Fraction(a.num * b.num, a.den * b.den)

\* a < 1.0 for a fraction a
BelowOne(a) == a.num < a.den

\* Point::Length of a vector of whole length
Length(v) == ISqrt(v[1] * v[1] + v[2] * v[2], 2 * snapThresholdPx)

\* ClientReconciliation::IsSignificantError
IsSignificantError_Strict(r, errorMagnitude) == errorMagnitude > r.errorThresholdPx

IsSignificantError(r, errorMagnitude) == errorMagnitude >= r.errorThresholdPx

\* correctionTimeSeconds * 60.0, raised to 1.0 when below
FramesForCorrection(r) ==
    LET frames == Fraction(r.correctionTimeSeconds.num * 60, r.correctionTimeSeconds.den)
    IN  IF BelowOne(frames) THEN Fraction(1, 1) ELSE frames

\* ClientReconciliation::GetCorrectionStepPerFrame
GetCorrectionStepPerFrame(r) ==
    LET frames == FramesForCorrection(r)
    IN  Fraction(frames.den, frames.num)

\* ClientReconciliation::ReconcilePosition
ReconcilePosition(r, predictedPos, serverPos) ==
    LET error == <<serverPos[1] - predictedPos[1], serverPos[2] - predictedPos[2]>>
        errorMagnitude == Length(error)
        average == FractionSum(Fraction(errorMagnitude, 10),
                               FractionProduct(Fraction(9, 10), r.averageError))
        measured == [r EXCEPT !.averageError = average]
    IN  IF ~IsSignificantError(r, errorMagnitude)
        THEN [measured EXCEPT !.positionError = <<0, 0>>,
                              !.positionCorrectionProgress = Fraction(1, 1)]
        ELSE IF errorMagnitude > r.snapThresholdPx
        THEN [measured EXCEPT !.positionError = <<0, 0>>,
                              !.positionCorrectionProgress = Fraction(1, 1),
                              !.totalSnaps = @ + 1]
        ELSE [measured EXCEPT !.positionError = error,
                              !.positionCorrectionProgress = Fraction(0, 1),
                              !.totalReconciliations = @ + 1]

\* ClientReconciliation::GetCorrectedPosition, a position being a pair of
\* fractions
GetCorrectedPosition(r, currentPos) ==
    IF ~BelowOne(r.positionCorrectionProgress)
    THEN currentPos
    ELSE LET step == GetCorrectionStepPerFrame(r)
         IN  [i \in 1..2 |->
                 FractionSum(currentPos[i],
                             FractionProduct(Fraction(r.positionError[i], 1), step))]

\* ClientReconciliation::Update
Update(r) ==
    IF ~BelowOne(r.positionCorrectionProgress)
    THEN r
    ELSE LET advanced == FractionSum(r.positionCorrectionProgress,
                                     GetCorrectionStepPerFrame(r))
         IN  IF ~BelowOne(advanced)
             THEN [r EXCEPT !.positionCorrectionProgress = Fraction(1, 1),
                            !.positionError = <<0, 0>>]
             ELSE [r EXCEPT !.positionCorrectionProgress = advanced]

\* ClientReconciliation::IsReconcilingPosition
IsReconcilingPosition(r) == BelowOne(r.positionCorrectionProgress)

ReconciliationUnchanged ==
    /\ UNCHANGED <<clockVars, serverVars, loopVars, worldVars, threadVars, historyVars,
                   bufferVars, validatorVars, predictorVars, connectionMonitor,
                   interpolatorVars, clientVars, projectileVars, stateSyncVars,
                   managerVars, programVars>>

\* ReconcilePosition(predicted, predicted + error); the caller starts again
\* from the predicted position.
ReconcilePositionCall(error) ==
    LET serverPos == <<PredictedPosition[1] + error[1], PredictedPosition[2] + error[2]>>
        after == ReconcilePosition(reconciliation, PredictedPosition, serverPos)
    IN  /\ correction.calls < MaxReconcileCalls
        /\ reconciliation' = after
        /\ correction' =
               [case |-> IF after.totalSnaps # reconciliation.totalSnaps THEN "snap"
                         ELSE IF after.totalReconciliations
                                    # reconciliation.totalReconciliations
                         THEN "smooth" ELSE "ignore",
                predicted |-> PredictedPosition,
                server |-> serverPos,
                position |-> <<Fraction(PredictedPosition[1], 1),
                               Fraction(PredictedPosition[2], 1)>>,
                frames |-> FramesForCorrection(reconciliation),
                updates |-> 0, applied |-> 0,
                calls |-> correction.calls + 1]
        /\ op' = [name |-> "ReconcilePosition", before |-> reconciliation]
        /\ ReconciliationUnchanged

\* The setters are called between corrections: a correction runs with one
\* configuration from its start to its end.
SetErrorThreshold(pixels) ==
    /\ ~IsReconcilingPosition(reconciliation)
    /\ reconciliation' = [reconciliation EXCEPT !.errorThresholdPx = pixels]
    /\ op' = [name |-> "SetErrorThreshold"]
    /\ UNCHANGED correction
    /\ ReconciliationUnchanged

SetSnapThreshold(pixels) ==
    /\ ~IsReconcilingPosition(reconciliation)
    /\ reconciliation' = [reconciliation EXCEPT !.snapThresholdPx = pixels]
    /\ op' = [name |-> "SetSnapThreshold"]
    /\ UNCHANGED correction
    /\ ReconciliationUnchanged

SetCorrectionTime(seconds) ==
    /\ ~IsReconcilingPosition(reconciliation)
    /\ reconciliation' = [reconciliation EXCEPT !.correctionTimeSeconds = seconds]
    /\ op' = [name |-> "SetCorrectionTime"]
    /\ UNCHANGED correction
    /\ ReconciliationUnchanged

\* The caller's frame, first half: the position it draws moves to
\* GetCorrectedPosition of itself, once before each Update.  The calls are
\* counted while a correction is under way.
GetCorrectedPositionCall ==
    /\ correction.applied = correction.updates
    /\ correction.updates < MaxUpdates
    /\ correction' =
           [correction EXCEPT !.position = GetCorrectedPosition(reconciliation, @),
                              !.applied = IF IsReconcilingPosition(reconciliation)
                                          THEN @ + 1 ELSE @]
    /\ op' = [name |-> "GetCorrectedPosition"]
    /\ UNCHANGED reconciliation
    /\ ReconciliationUnchanged

\* Update, with or without the first half of the frame before it.
ReconciliationUpdate ==
    /\ correction.updates < MaxUpdates
    /\ reconciliation' = Update(reconciliation)
    /\ correction' = [correction EXCEPT !.updates =
                           IF IsReconcilingPosition(reconciliation) THEN @ + 1 ELSE @]
    /\ op' = [name |-> "Update"]
    /\ ReconciliationUnchanged

NextReconciliation ==
    \/ \E error \in PositionErrors : ReconcilePositionCall(error)
    \/ \E pixels \in ErrorThresholds : SetErrorThreshold(pixels)
    \/ \E pixels \in SnapThresholds : SetSnapThreshold(pixels)
    \/ \E seconds \in CorrectionTimes : SetCorrectionTime(seconds)
    \/ GetCorrectedPositionCall
    \/ ReconciliationUpdate

SpecReconciliation == Init /\ [][NextReconciliation]_vars

\* The length of the error of the latest ReconcilePosition.
ErrorMagnitude ==
    Length(<<correction.server[1] - correction.predicted[1],
             correction.server[2] - correction.predicted[2]>>)

Ignored ==
    /\ ~IsReconcilingPosition(reconciliation)
    /\ reconciliation.positionError = <<0, 0>>
    /\ reconciliation.totalSnaps = op.before.totalSnaps
    /\ reconciliation.totalReconciliations = op.before.totalReconciliations

Snapped ==
    /\ ~IsReconcilingPosition(reconciliation)
    /\ reconciliation.positionError = <<0, 0>>
    /\ reconciliation.totalSnaps = op.before.totalSnaps + 1
    /\ reconciliation.totalReconciliations = op.before.totalReconciliations

Smoothed ==
    /\ reconciliation.positionCorrectionProgress = Fraction(0, 1)
    /\ reconciliation.positionError
           = <<correction.server[1] - correction.predicted[1],
               correction.server[2] - correction.predicted[2]>>
    /\ reconciliation.totalSnaps = op.before.totalSnaps
    /\ reconciliation.totalReconciliations
           = op.before.totalReconciliations + 1

\* C22, as stated: after ReconcilePosition with an error of length e, e below
\* the error threshold is ignored (no correction under way, no error stored,
\* both counters as before), e above the snap threshold snaps (no correction
\* under way, snap counter one more), and any other e starts a smooth
\* correction (progress 0, the error stored, reconciliation counter one more).
C22_ThreeCases ==
    op.name = "ReconcilePosition" =>
        /\ ErrorMagnitude < op.before.errorThresholdPx => Ignored
        /\ ErrorMagnitude > op.before.snapThresholdPx => Snapped
        /\ (/\ ErrorMagnitude >= op.before.errorThresholdPx
            /\ ErrorMagnitude <= op.before.snapThresholdPx) => Smoothed

\* C22, amended: the cases are tried in order.  e below the error threshold
\* is ignored, whatever the snap threshold; otherwise e above the snap
\* threshold snaps; otherwise a smooth correction starts.
C22_ThreeCasesInOrder ==
    op.name = "ReconcilePosition" =>
        /\ ErrorMagnitude < op.before.errorThresholdPx => Ignored
        /\ (/\ ErrorMagnitude >= op.before.errorThresholdPx
            /\ ErrorMagnitude > op.before.snapThresholdPx) => Snapped
        /\ (/\ ErrorMagnitude >= op.before.errorThresholdPx
            /\ ErrorMagnitude <= op.before.snapThresholdPx) => Smoothed

\* ReconcilePosition was called with an error exactly at the error threshold
\* while a correction was under way, and a smooth correction has started.
C22_Witness ==
    /\ op.name = "ReconcilePosition"
    /\ ErrorMagnitude = op.before.errorThresholdPx
    /\ IsReconcilingPosition(op.before)
    /\ correction.case = "smooth"
    /\ correction.calls = MaxReconcileCalls

\* ceil(correctionTimeSeconds x 60), at least 1, of the latest correction
CorrectionFrames == (correction.frames.num + correction.frames.den - 1) \div correction.frames.den

\* The smooth correction is over: progress 1, no error stored.
CorrectionFinished ==
    /\ ~IsReconcilingPosition(reconciliation)
    /\ reconciliation.positionCorrectionProgress = Fraction(1, 1)
    /\ reconciliation.positionError = <<0, 0>>

\* Each Update of the correction came after one GetCorrectedPosition.
AppliedEachFrame == correction.applied = correction.updates

\* C23: a smooth correction is over after ceil(correctionTimeSeconds x 60)
\* Update calls (at least 1), and when the caller has moved its position to
\* GetCorrectedPosition once before each of these Updates, the position it
\* has reached is the server's position of the ReconcilePosition call.
C23_SmoothCorrectionEndsAtServerPosition ==
    correction.case = "smooth" =>
        /\ correction.updates >= CorrectionFrames => CorrectionFinished
        /\ (CorrectionFinished /\ AppliedEachFrame) =>
               correction.position = <<Fraction(correction.server[1], 1),
                                       Fraction(correction.server[2], 1)>>

(***************************************************************************)
(* MultiplayerClient (MultiplayerClient.cpp).  The NetworkManager is the   *)
(* transport of the specification: startClient succeeds or fails, shutdown *)
(* ends the connection, and its CONNECTED, DISCONNECTED and PACKET events  *)
(* are dispatched to the handlers OnConnected, OnDisconnected,             *)
(* OnServerWelcome and OnStateUpdate.  ClientReconciliation::Update and    *)
(* the command payload have no part in the state kept here.                *)
(***************************************************************************)

\* The client sends at most this many commands and receives at most this
\* many state updates.
MaxCommandsSent == 2
MaxStateUpdates == 1

\* static_cast<uint32_t>: the counter modulo the width of the sequence number
\* (SequenceModulus stands for 2^32).
SequenceModulus == 1073741824

SequenceNumber_Zero(sent) == 0

SequenceNumber(sent) == sent % SequenceModulus

\* The tick of a default-constructed GameState (MultiplayerClient.cpp:217).
DefaultGameTick == 0

\* What the read through the null playerUUID of SendCommand can give: the
\* process ends (<<>>), or some value is read as the UUID.
NullReadOutcomes == {<<>>} \cup {<<p>> : p \in Players}

\* `state` is assigned: the change is kept when it is one.
EdgesAfter(edges, from, to) == IF from = to THEN edges ELSE edges \cup {<<from, to>>}

NoEdges == {}

\* MultiplayerClient::Disconnect when state is not DISCONNECTED
DisconnectEffects ==
    /\ state' = "DISCONNECTED"
    /\ transport' = "idle"
    /\ stateEdges' = EdgesAfter(EdgesAfter(NoEdges, state, "DISCONNECTING"),
                                "DISCONNECTING", "DISCONNECTED")
    /\ connectionActiveAt' = <<>>

ClientUnchanged ==
    /\ UNCHANGED <<now, serverVars, loopVars, worldVars, threadVars, historyVars,
                   bufferVars, validatorVars, systemMs, componentVars>>

\* MultiplayerClient::Connect; startClient of the transport succeeds or not.
Connect(started) ==
    /\ ~clientCrashed
    /\ IF state # "DISCONNECTED"
       THEN /\ stateEdges' = NoEdges
            /\ UNCHANGED <<state, transport>>
       ELSE IF started
       THEN /\ state' = "CONNECTING"
            /\ transport' = "connecting"
            /\ stateEdges' = EdgesAfter(NoEdges, state, "CONNECTING")
       ELSE /\ state' = "DISCONNECTED"
            /\ transport' = "idle"
            /\ stateEdges' = EdgesAfter(EdgesAfter(NoEdges, state, "CONNECTING"),
                                        "CONNECTING", "DISCONNECTED")
    /\ op' = [name |-> "Connect", stateBefore |-> state,
              ret |-> (state = "DISCONNECTED" /\ started)]
    /\ UNCHANGED <<clockMs, connectionMonitor, interpolatorVars, predictorVars,
                   playerUUID, commandsSent, stateUpdatesReceived,
                   clientPredictionErrors, clientGameTick, clientCrashed,
                   sentSequenceNumbers, connectionActiveAt>>
    /\ ClientUnchanged

\* MultiplayerClient::Disconnect
Disconnect ==
    /\ ~clientCrashed
    /\ IF state = "DISCONNECTED"
       THEN /\ stateEdges' = NoEdges
            /\ UNCHANGED <<state, transport, connectionActiveAt>>
       ELSE DisconnectEffects
    /\ op' = [name |-> "Disconnect", stateBefore |-> state]
    /\ UNCHANGED <<clockMs, connectionMonitor, interpolatorVars, predictorVars,
                   playerUUID, commandsSent, stateUpdatesReceived,
                   clientPredictionErrors, clientGameTick, clientCrashed,
                   sentSequenceNumbers>>
    /\ ClientUnchanged

\* MultiplayerClient::Update
ClientUpdate ==
    /\ ~clientCrashed
    /\ IF state # "CONNECTED"
       THEN /\ stateEdges' = NoEdges
            /\ UNCHANGED <<connectionMonitor, entityStates, arrivals, state, transport,
                           connectionActiveAt>>
       ELSE /\ entityStates' = PruneOldSnapshots(entityStates, systemMs)
            /\ arrivals' = [e \in DOMAIN arrivals |->
                                IF entityStates'[e] = entityStates[e]
                                THEN arrivals[e] ELSE entityStates'[e]]
            /\ connectionMonitor' = MonitorUpdate(connectionMonitor, clockMs)
            /\ IF IsTimedOut(connectionMonitor', clockMs)
               THEN DisconnectEffects
               ELSE /\ stateEdges' = NoEdges
                    /\ UNCHANGED <<state, transport, connectionActiveAt>>
    /\ reconciliation' = IF state # "CONNECTED" THEN reconciliation
                          ELSE Update(reconciliation)
    /\ op' = [name |-> "ClientUpdate", stateBefore |-> state, at |-> clockMs,
              activeAt |-> connectionActiveAt]
    /\ UNCHANGED <<clockMs, systemMs, lastInterpolated, predictorVars, playerUUID,
                   correction, projectileVars, stateSyncVars, managerVars, programVars,
                   commandsSent, stateUpdatesReceived, clientPredictionErrors,
                   clientGameTick, clientCrashed, sentSequenceNumbers>>
    /\ UNCHANGED <<now, serverVars, loopVars, worldVars, threadVars, historyVars,
                   bufferVars, validatorVars>>

\* MultiplayerClient::SendCommand with SendCommandToServer and
\* ApplyPrediction; `nullRead` is what the read of *playerUUID gives while
\* the pointer is null.
SendCommand(nullRead) ==
    LET read == IF playerUUID # <<>> THEN playerUUID ELSE nullRead
        playerCmd == PlayerCommand(read[1], clientGameTick, SequenceNumber(commandsSent))
    IN  /\ ~clientCrashed
        /\ state = "CONNECTED" => commandsSent < MaxCommandsSent
        /\ IF state # "CONNECTED"
           THEN UNCHANGED <<connectionMonitor, predictorVars, commandsSent,
                            clientGameTick, clientCrashed, sentSequenceNumbers>>
           ELSE IF read = <<>>
           THEN /\ clientCrashed' = TRUE
                /\ UNCHANGED <<connectionMonitor, predictorVars, commandsSent,
                               clientGameTick, sentSequenceNumbers>>
           ELSE /\ connectionMonitor' =
                       MonitorRecordPacketSent(connectionMonitor, commandsSent)
                /\ clientGameTick' = GameStateStep(ApplyCommand(clientGameTick, playerCmd))
                /\ unconfirmedCommands' = RecordInto(unconfirmedCommands, playerCmd)
                /\ recorded' = recorded + 1
                /\ commandsSent' = commandsSent + 1
                /\ sentSequenceNumbers' =
                       Append(sentSequenceNumbers, playerCmd.sequenceNumber)
                /\ UNCHANGED <<lastConfirmedTick, predictionErrors, clientCrashed>>
        /\ op' = [name |-> "SendCommand", stateBefore |-> state]
        /\ stateEdges' = NoEdges
        /\ UNCHANGED <<clockMs, interpolatorVars, state, transport, playerUUID,
                       stateUpdatesReceived, clientPredictionErrors,
                       connectionActiveAt>>
        /\ ClientUnchanged

\* The transport reports CONNECTED: MultiplayerClient::OnConnected.
OnConnected ==
    /\ ~clientCrashed
    /\ transport = "connecting"
    /\ transport' = "connected"
    /\ state' = "CONNECTED"
    /\ stateEdges' = EdgesAfter(NoEdges, state, "CONNECTED")
    /\ connectionActiveAt' = <<clockMs>>
    /\ op' = [name |-> "OnConnected", stateBefore |-> state]
    /\ UNCHANGED <<clockMs, connectionMonitor, interpolatorVars, predictorVars,
                   playerUUID, commandsSent, stateUpdatesReceived,
                   clientPredictionErrors, clientGameTick, clientCrashed,
                   sentSequenceNumbers>>
    /\ ClientUnchanged

\* The transport reports DISCONNECTED: MultiplayerClient::OnDisconnected.
OnDisconnected ==
    /\ ~clientCrashed
    /\ transport \in {"connecting", "connected"}
    /\ transport' = "idle"
    /\ state' = "DISCONNECTED"
    /\ stateEdges' = EdgesAfter(NoEdges, state, "DISCONNECTED")
    /\ connectionActiveAt' = <<>>
    /\ op' = [name |-> "OnDisconnected", stateBefore |-> state]
    /\ UNCHANGED <<clockMs, connectionMonitor, interpolatorVars, predictorVars,
                   playerUUID, commandsSent, stateUpdatesReceived,
                   clientPredictionErrors, clientGameTick, clientCrashed,
                   sentSequenceNumbers>>
    /\ ClientUnchanged

\* A SERVER_WELCOME packet arrives: MultiplayerClient::OnServerWelcome makes
\* a UUID.
OnServerWelcome(uuid) ==
    /\ ~clientCrashed
    /\ transport = "connected"
    /\ playerUUID' = <<uuid>>
    /\ connectionActiveAt' = <<clockMs>>
    /\ op' = [name |-> "OnServerWelcome", uuid |-> uuid]
    /\ stateEdges' = NoEdges
    /\ UNCHANGED <<clockMs, connectionMonitor, interpolatorVars, predictorVars,
                   state, transport, commandsSent, stateUpdatesReceived,
                   clientPredictionErrors, clientGameTick, clientCrashed,
                   sentSequenceNumbers>>
    /\ ClientUnchanged

\* A SERVER_WORLD_STATE packet arrives: MultiplayerClient::OnStateUpdate with
\* MultiplayerClient::ReconcileWithServer and Predictor::ReconcileWithServer
\* on a default-constructed server state.
OnStateUpdate ==
    LET serverTick == DefaultGameTick
        remaining == RemoveConfirmed(unconfirmedCommands, serverTick)
        replay == Replay(serverTick, remaining, <<>>)
        mismatch == remaining # <<>> /\ ~PredictionMatches(replay.tick, serverTick)
    IN  /\ ~clientCrashed
        /\ transport = "connected"
        /\ stateUpdatesReceived < MaxStateUpdates
        /\ stateUpdatesReceived' = stateUpdatesReceived + 1
        /\ lastConfirmedTick' = serverTick
        /\ unconfirmedCommands' = remaining
        /\ predictionErrors' = IF mismatch THEN predictionErrors + 1 ELSE predictionErrors
        /\ clientPredictionErrors' =
               IF replay.tick # clientGameTick
               THEN clientPredictionErrors + 1 ELSE clientPredictionErrors
        /\ clientGameTick' = replay.tick
        /\ connectionMonitor' =
               MonitorRecordPacketReceived(connectionMonitor, stateUpdatesReceived + 1,
                                           clockMs)
        /\ connectionActiveAt' = <<clockMs>>
        /\ op' = [name |-> "OnStateUpdate"]
        /\ stateEdges' = NoEdges
        /\ UNCHANGED <<clockMs, interpolatorVars, recorded, state, transport,
                       playerUUID, commandsSent, clientCrashed, sentSequenceNumbers>>
        /\ ClientUnchanged

NextClient ==
    \/ \E started \in BOOLEAN : Connect(started)
    \/ Disconnect
    \/ ClientUpdate
    \/ \E nullRead \in NullReadOutcomes : SendCommand(nullRead)
    \/ OnConnected
    \/ OnDisconnected
    \/ \E uuid \in Players : OnServerWelcome(uuid)
    \/ OnStateUpdate
    \/ \E d \in MonitorClockSteps : AdvanceMonitorClock(d)

SpecClient == Init /\ [][NextClient]_vars

\* The edges of the connection state machine.
AllowedEdges ==
    {<<"DISCONNECTED", "CONNECTING">>, <<"CONNECTING", "CONNECTED">>,
     <<"CONNECTED", "DISCONNECTING">>, <<"DISCONNECTING", "DISCONNECTED">>}

\* C14: for every sequence of Connect, Disconnect, Update and transport
\* connected / disconnected events, the connection state of the client changes
\* only along DISCONNECTED -> CONNECTING -> CONNECTED -> DISCONNECTING ->
\* DISCONNECTED: every change a call made, the ones in the middle of the call
\* included, is one of these edges.
C14_StateChangesAlongEdges == stateEdges \subseteq AllowedEdges

\* C15: an Update of a CONNECTED client ends with the client DISCONNECTED
\* exactly when more than timeoutMs has passed since the last packet was
\* received on this connection, or since the connection was established when
\* none was received yet; otherwise the client stays CONNECTED.
C15_UpdateDisconnectsIffSilent ==
    (op.name = "ClientUpdate" /\ op.stateBefore = "CONNECTED") =>
        IF op.at - op.activeAt[1] > timeoutMs
        THEN state = "DISCONNECTED"
        ELSE state = "CONNECTED"

\* A step of SendCommand made while the client is not CONNECTED changes
\* nothing the client keeps: no sequence number is used, and the predicted
\* world, the unconfirmed commands and the packet counters stay as they are.
C16_SendCommandStep ==
    (op'.name = "SendCommand" /\ state # "CONNECTED") =>
        UNCHANGED <<commandsSent, sentSequenceNumbers, clientGameTick,
                    unconfirmedCommands, connectionMonitor>>

C16_StrictlyIncreasing ==
    \A i, j \in 1..Len(sentSequenceNumbers) :
        i < j => sentSequenceNumbers[i] < sentSequenceNumbers[j]

\* C16: the sequence numbers SendCommand assigns are strictly increasing over
\* the commands sent, and a SendCommand made while the client is not CONNECTED
\* uses no sequence number and leaves the predicted world, the list of
\* unconfirmed commands and the packet counters unchanged.
C16_SequenceNumbersAndFrame ==
    [][C16_SendCommandStep]_vars /\ []C16_StrictlyIncreasing

\* Two commands were sent in a session, the session ended, and SendCommand is
\* called on the client that is no longer CONNECTED.
C16_Witness ==
    /\ op.name = "SendCommand"
    /\ op.stateBefore # "CONNECTED"
    /\ Len(sentSequenceNumbers) >= 2
    /\ connectionMonitor.totalPacketsSent = Len(sentSequenceNumbers)

(***************************************************************************)
(* The interpolation of one entity's timeline: states with positions       *)
(* arrive for MovingEntity, and the state of any entity is asked for.      *)
(***************************************************************************)

\* The system clock advances by the interpolation delay or by a longer step,
\* so that the render time falls on a timestamp or between two.
InterpolationClockSteps == {interpolationDelayMs, SystemClockStepMs}
MaxInterpolationClockMs == SystemClockStart + SystemClockStepMs + interpolationDelayMs

AdvanceInterpolationClock(d) ==
    /\ systemMs + d <= MaxInterpolationClockMs
    /\ systemMs' = systemMs + d
    /\ UNCHANGED <<entityStates, lastInterpolated, arrivals, op>>
    /\ InterpolatorUnchanged

NextInterpolation ==
    \/ \E x \in Positions : AddSnapshot(MovingEntity, x)
    \/ \E e \in Entities : GetInterpolatedStateCall(e)
    \/ \E d \in InterpolationClockSteps : AdvanceInterpolationClock(d)

SpecInterpolation == Init /\ [][NextInterpolation]_vars

\* The indices of the adjacent pairs of a timeline that bracket renderTime.
Brackets(history, renderTime) ==
    {i \in 1..(Len(history) - 1) :
        /\ history[i].timestamp <= renderTime
        /\ renderTime <= history[i + 1].timestamp}

\* before + (after - before) x a for the pair at i, with
\* a = (renderTime - before.timestamp) / (after.timestamp - before.timestamp)
\* clamped to [0, 1]; a pair of equal timestamps has no quotient and gives
\* either of its two positions.
BracketPositions(history, i, renderTime) ==
    LET before == history[i]
        after == history[i + 1]
        span == after.timestamp - before.timestamp
        elapsed == renderTime - before.timestamp
        a == IF elapsed < 0 THEN Fraction(0, 1)
             ELSE IF elapsed > span THEN Fraction(1, 1)
             ELSE Fraction(elapsed, span)
    IN  IF span = 0
        THEN {before.position, after.position}
        ELSE {Fraction(before.position.num * after.position.den * a.den
                         + (after.position.num * before.position.den
                              - before.position.num * after.position.den) * a.num,
                       before.position.den * after.position.den * a.den)}

\* C21: when the timeline has an adjacent pair with before.timestamp <=
\* renderTime <= after.timestamp, GetInterpolatedState returns the position
\* before + (after - before) x a of such a pair; when no pair brackets
\* renderTime it returns the most recent snapshot, and a single snapshot is
\* returned as it is.
C21_InterpolatedPosition ==
    (op.name = "GetInterpolatedState" /\ op.entityId \in DOMAIN entityStates) =>
        LET history == entityStates[op.entityId]
            pairs == Brackets(history, op.renderTime)
        IN  /\ Len(history) = 1 => op.state = <<history[1]>>
            /\ (Len(history) >= 2 /\ pairs = {}) => op.state = <<history[Len(history)]>>
            /\ (Len(history) >= 2 /\ pairs # {}) =>
                   /\ op.state # <<>>
                   /\ \E i \in pairs :
                          op.state[1].position
                              \in BracketPositions(history, i, op.renderTime)

\* A state was asked for at a render time strictly between the timestamps of
\* two states with different positions.
C21_Witness ==
    /\ op.name = "GetInterpolatedState"
    /\ op.entityId \in DOMAIN entityStates
    /\ \E i \in Brackets(entityStates[op.entityId], op.renderTime) :
           /\ entityStates[op.entityId][i].timestamp < op.renderTime
           /\ op.renderTime < entityStates[op.entityId][i + 1].timestamp
           /\ entityStates[op.entityId][i].position
                  # entityStates[op.entityId][i + 1].position
    /\ op.state[1].position.den > 1

(***************************************************************************)
(* Claims about the predictor's list of unconfirmed commands                *)
(***************************************************************************)

\* A step of RecordCommand leaves the last maxUnconfirmedCommands commands of
\* the list it found followed by the command recorded.
C24_RecordStep ==
    op'.name = "RecordCommand" =>
        LET command == PlayerCommand(LocalPlayer, op'.tick, recorded)
            all == Append(unconfirmedCommands, command)
        IN  unconfirmedCommands'
                = LastN(all, Min(Len(all), maxUnconfirmedCommands))

\* The list holds at most maxUnconfirmedCommands commands, in the order they
\* were recorded in.
C24_AtMostKInOrder ==
    /\ Len(unconfirmedCommands) <= maxUnconfirmedCommands
    /\ \A i, j \in 1..Len(unconfirmedCommands) :
           i < j => unconfirmedCommands[i].sequenceNumber
                        < unconfirmedCommands[j].sequenceNumber

\* C24: with the limit K = maxUnconfirmedCommands fixed, every RecordCommand
\* call leaves the K most recently recorded commands of the list, the oldest
\* dropped first, so that after any sequence of calls the list holds at most
\* K commands: the K most recent ones, in recording order.
C24_HoldsKMostRecent ==
    [][C24_RecordStep]_vars /\ []C24_AtMostKInOrder

\* More than maxUnconfirmedCommands commands were recorded with no call in
\* between that removes one, and the list holds the latest of them.
C24_Witness ==
    /\ op.name = "RecordCommand"
    /\ recorded > maxUnconfirmedCommands
    /\ Len(unconfirmedCommands) = maxUnconfirmedCommands
    /\ \A i \in 1..maxUnconfirmedCommands :
           unconfirmedCommands[i].sequenceNumber = recorded - maxUnconfirmedCommands + i - 1

(***************************************************************************)
(* ProjectileSync (ProjectileSync.cpp) and the projectile tracker on its   *)
(* own.  A projectile is its address; an event is its network ID and the   *)
(* tick it was registered at, the rest of its payload is left out.         *)
(***************************************************************************)

\* At most this many spawns are registered between two Clear calls, and at
\* most this many events are registered and not yet asked for.
MaxSpawns == 2
MaxPending == 3

\* uint32_t nextProjectileID: 2^32 stands beyond TLC's integers, so the
\* modulus is 2^30; the model stays far below either.
ProjectileIdModulus == 1073741824

\* The projectiles of the world, and the IDs impacts and deaths are
\* registered for: 0 is never handed out.  The tick stays as constructed.
Projectiles == {"a", "b"}
EventIds == {0, 1}

ProjectileSpawn(id, tick) == [projectileID |-> id, spawnTick |-> tick]
ProjectileImpact(id, tick) == [projectileID |-> id, impactTick |-> tick]
ProjectileDeath(id, tick) == [projectileID |-> id, deathTick |-> tick]

\* nextProjectileID++
NextProjectileID_Same(id) == id

NextProjectileID(id) == (id + 1) % ProjectileIdModulus

\* ProjectileSync::FindProjectileByNetworkID: <<>> for nullptr
FindProjectileByNetworkID(sync, networkID) ==
    IF networkID \in DOMAIN sync.networkIDToProjectile
    THEN <<sync.networkIDToProjectile[networkID]>>
    ELSE <<>>

\* ProjectileSync::GetTrackedProjectileCount
GetTrackedProjectileCount(sync) == Cardinality(DOMAIN sync.networkIDToProjectile)

\* ProjectileSync::RegisterProjectileSpawn on the object
SpawnRegistered(sync, projectile) ==
    LET networkID == sync.nextProjectileID
    IN  [sync EXCEPT
            !.nextProjectileID = NextProjectileID(networkID),
            !.networkIDToProjectile = MapPut(@, networkID, projectile),
            !.projectileToNetworkID = MapPut(@, projectile, networkID),
            !.pendingSpawns = Append(@, ProjectileSpawn(networkID, sync.currentTick))]

\* The impact goes to the front of the list.
ImpactRegistered_Front(sync, projectileID) ==
    [sync EXCEPT !.pendingImpacts =
                     <<ProjectileImpact(projectileID, sync.currentTick)>> \o @]

\* ProjectileSync::RegisterImpact on the object
ImpactRegistered(sync, projectileID) ==
    [sync EXCEPT !.pendingImpacts =
                     Append(@, ProjectileImpact(projectileID, sync.currentTick))]

\* ProjectileSync::RegisterDeath on the object
DeathRegistered(sync, projectileID) ==
    [sync EXCEPT !.pendingDeaths =
                     Append(@, ProjectileDeath(projectileID, sync.currentTick))]

ProjectilesUnchanged ==
    /\ UNCHANGED <<clockVars, serverVars, loopVars, worldVars, threadVars, historyVars,
                   bufferVars, validatorVars, predictorVars, connectionMonitor,
                   interpolatorVars, clientVars, reconciliationVars, stateSyncVars,
                   managerVars, programVars>>

\* The number of events registered since the last drain of their kind.
Undrained ==
    Len(projectileLog.registered.spawns) + Len(projectileLog.registered.impacts)
        + Len(projectileLog.registered.deaths)

LogEvent(kind, event) ==
    [projectileLog EXCEPT !.registered[kind] = Append(@, event),
                          !.kept[kind] = Append(@, event)]

LogDrain(kind) ==
    [projectileLog EXCEPT !.registered[kind] = <<>>, !.kept[kind] = <<>>]

RegisterProjectileSpawn(projectile) ==
    /\ Len(projectileLog.ids) < MaxSpawns
    /\ Undrained < MaxPending
    /\ projectileSync' = SpawnRegistered(projectileSync, projectile)
    /\ projectileLog' =
           [LogEvent("spawns", ProjectileSpawn(projectileSync.nextProjectileID,
                                               projectileSync.currentTick))
               EXCEPT !.ids = Append(@, projectileSync.nextProjectileID)]
    /\ op' = [name |-> "RegisterProjectileSpawn",
              networkID |-> projectileSync.nextProjectileID,
              before |-> projectileSync]
    /\ ProjectilesUnchanged

RegisterImpact(projectileID) ==
    /\ Undrained < MaxPending
    /\ projectileSync' = ImpactRegistered(projectileSync, projectileID)
    /\ projectileLog' =
           LogEvent("impacts", ProjectileImpact(projectileID, projectileSync.currentTick))
    /\ op' = [name |-> "RegisterImpact", projectileID |-> projectileID,
              before |-> projectileSync]
    /\ ProjectilesUnchanged

RegisterDeath(projectileID) ==
    /\ Undrained < MaxPending
    /\ projectileSync' = DeathRegistered(projectileSync, projectileID)
    /\ projectileLog' =
           LogEvent("deaths", ProjectileDeath(projectileID, projectileSync.currentTick))
    /\ op' = [name |-> "RegisterDeath", projectileID |-> projectileID,
              before |-> projectileSync]
    /\ ProjectilesUnchanged

GetPendingSpawns ==
    /\ projectileSync' = [projectileSync EXCEPT !.pendingSpawns = <<>>]
    /\ projectileLog' = LogDrain("spawns")
    /\ op' = [name |-> "GetPendingSpawns", result |-> projectileSync.pendingSpawns,
              registered |-> projectileLog.registered.spawns,
              kept |-> projectileLog.kept.spawns]
    /\ ProjectilesUnchanged

GetPendingImpacts ==
    /\ projectileSync' = [projectileSync EXCEPT !.pendingImpacts = <<>>]
    /\ projectileLog' = LogDrain("impacts")
    /\ op' = [name |-> "GetPendingImpacts", result |-> projectileSync.pendingImpacts,
              registered |-> projectileLog.registered.impacts,
              kept |-> projectileLog.kept.impacts]
    /\ ProjectilesUnchanged

GetPendingDeaths ==
    /\ projectileSync' = [projectileSync EXCEPT !.pendingDeaths = <<>>]
    /\ projectileLog' = LogDrain("deaths")
    /\ op' = [name |-> "GetPendingDeaths", result |-> projectileSync.pendingDeaths,
              registered |-> projectileLog.registered.deaths,
              kept |-> projectileLog.kept.deaths]
    /\ ProjectilesUnchanged

\* ProjectileSync::Clear: the tick stays.
ProjectileSyncClear ==
    /\ projectileSync' = NewProjectileSync(projectileSync.currentTick)
    /\ projectileLog' = [projectileLog EXCEPT !.ids = <<>>, !.kept = NoEvents]
    /\ op' = [name |-> "ProjectileSyncClear"]
    /\ ProjectilesUnchanged

NextProjectiles ==
    \/ \E projectile \in Projectiles : RegisterProjectileSpawn(projectile)
    \/ \E id \in EventIds : RegisterImpact(id)
    \/ \E id \in EventIds : RegisterDeath(id)
    \/ GetPendingSpawns
    \/ GetPendingImpacts
    \/ GetPendingDeaths
    \/ ProjectileSyncClear

SpecProjectiles == Init /\ [][NextProjectiles]_vars

\* C25: after RegisterImpact(id) or RegisterDeath(id) for an ID that resolved
\* to a projectile, the ID no longer resolves and the tracked-projectile
\* count is one less than before the call.
C25_BindingEndsAtImpactOrDeath ==
    (/\ op.name \in {"RegisterImpact", "RegisterDeath"}
     /\ FindProjectileByNetworkID(op.before, op.projectileID) # <<>>) =>
        /\ FindProjectileByNetworkID(projectileSync, op.projectileID) = <<>>
        /\ GetTrackedProjectileCount(projectileSync)
               = GetTrackedProjectileCount(op.before) - 1

\* C26: the network IDs handed out since the last Clear are 1, 2, 3, ... in
\* the order of the spawns, the next ID is one more than the number of these
\* spawns, and it is 1 after Clear.
C26_IdsCountFromOne ==
    /\ \A i \in 1..Len(projectileLog.ids) : projectileLog.ids[i] = i
    /\ projectileSync.nextProjectileID = Len(projectileLog.ids) + 1
    /\ op.name = "RegisterProjectileSpawn" =>
           /\ op.networkID = Len(projectileLog.ids)
           /\ op.networkID = op.before.nextProjectileID
    /\ op.name = "ProjectileSyncClear" => projectileSync.nextProjectileID = 1

\* Spawns were registered, Clear was called, and the first spawn after it
\* has the ID 1 again.
C26_Witness ==
    /\ op.name = "RegisterProjectileSpawn"
    /\ op.networkID = 1
    /\ Len(projectileLog.registered.spawns) > Len(projectileLog.ids)

Drains == {"GetPendingSpawns", "GetPendingImpacts", "GetPendingDeaths"}

\* C27, as stated: a drain returns every event of its kind registered since
\* the previous drain of the kind, in registration order (so each event is
\* returned by the first drain after its registration and by no other, and a
\* drain with nothing registered since the previous one returns nothing).
C27_DrainReturnsAllRegistered ==
    op.name \in Drains => op.result = op.registered

\* C27, amended: a drain returns the events of its kind registered since the
\* previous drain of the kind or the latest Clear, whichever came last, in
\* registration order; the events pending at a Clear are returned by no
\* drain.
C27_DrainReturnsRegisteredSinceClear ==
    op.name \in Drains => op.result = op.kept

\* A drain has returned two different events in the order of their
\* registration.
C27_Witness ==
    /\ op.name \in Drains
    /\ Len(op.result) >= 2
    /\ op.result[1] # op.result[2]
    /\ op.result = op.registered

(***************************************************************************)
(* InterestManager (InterestManager.cpp) and StateSync (StateSync.cpp):    *)
(* the updates of the world's ships for an observer, and their application *)
(* to a ship.  A point is a pair of whole coordinates.  Ship itself is not *)
(* part of the sources: its setters store the value they are given.        *)
(***************************************************************************)

\* The tick of StateSync is advanced one by one up to this.
MaxSyncTick == 5

\* The centers the observers register, the positions, motions and levels an
\* update carries, and the ticks it was captured at.  The positions lie 0,
\* 999, 1000, 2999, 3000, 5999, 6000, 9999, 10000 and 15000 from the origin.
InterestCenters == {<<0, 0>>, <<600, 800>>}
UpdatePositions ==
    {<<0, 0>>, <<999, 0>>, <<1000, 0>>, <<2999, 0>>, <<3000, 0>>, <<5999, 0>>,
     <<6000, 0>>, <<9999, 0>>, <<10000, 0>>}
OwnUpdatePositions == {<<15000, 0>>, <<2999, 0>>}
UpdateMotions == {[velocity |-> <<0, 0>>, angle |-> 0], [velocity |-> <<2, -1>>, angle |-> 90]}
UpdateLevels ==
    {[shields |-> FullLevel, hull |-> FullLevel, energy |-> FullLevel, fuel |-> FullLevel],
     [shields |-> 8, hull |-> 4, energy |-> 12, fuel |-> 0]}
UpdateTimestamps == {4}
UpdateScopes == {"FULL", "POSITION", "VITAL", "MINIMAL"}

\* InterestManager::GetDistanceToPlayer: <<>> for the largest double when the
\* player has no center, else <<n>> for the distance sqrt(n).
GetDistanceToPlayer(manager, player, position) ==
    IF player \notin DOMAIN manager.playerCenters
    THEN <<>>
    ELSE LET playerCenter == manager.playerCenters[player]
             dx == position[1] - playerCenter[1]
             dy == position[2] - playerCenter[2]
         IN  <<dx * dx + dy * dy>>

\* distance < range and distance <= range, for a range in whole units
DistanceBelow(distance, range) == distance # <<>> /\ distance[1] < range * range
DistanceWithin(distance, range) == distance # <<>> /\ distance[1] <= range * range

\* The bands include their outer radius.
GetInterestLevelByDistance_Inclusive(distance) ==
    IF DistanceWithin(distance, criticalRange) THEN "CRITICAL"
    ELSE IF DistanceWithin(distance, highRange) THEN "HIGH"
    ELSE IF DistanceWithin(distance, mediumRange) THEN "MEDIUM"
    ELSE IF DistanceWithin(distance, lowRange) THEN "LOW"
    ELSE "NONE"

\* InterestManager::GetInterestLevelByDistance
GetInterestLevelByDistance(distance) ==
    IF DistanceBelow(distance, criticalRange) THEN "CRITICAL"
    ELSE IF DistanceBelow(distance, highRange) THEN "HIGH"
    ELSE IF DistanceBelow(distance, mediumRange) THEN "MEDIUM"
    ELSE IF DistanceBelow(distance, lowRange) THEN "LOW"
    ELSE "NONE"

\* InterestManager::GetShipInterest
GetShipInterest(manager, player, ship) ==
    IF ship.owner = <<player>>
    THEN "CRITICAL"
    ELSE GetInterestLevelByDistance(GetDistanceToPlayer(manager, player, ship.position))

\* Every level is due on every tick.
ShouldUpdateThisTick_Always(level, tick) == level # "NONE"

\* InterestManager::ShouldUpdateThisTick
ShouldUpdateThisTick(level, tick) ==
    CASE level = "CRITICAL" -> tick % criticalFrequency = 0
      [] level = "HIGH" -> tick % highFrequency = 0
      [] level = "MEDIUM" -> tick % mediumFrequency = 0
      [] level = "LOW" -> tick % lowFrequency = 0
      [] OTHER -> FALSE

\* StateSync::InterestToPriority
InterestToPriority(level) == level

\* StateSync::DetermineUpdateScope
DetermineUpdateScope(priority) ==
    CASE priority = "CRITICAL" -> "FULL"
      [] priority = "HIGH" -> "FULL"
      [] priority = "MEDIUM" -> "POSITION"
      [] priority = "LOW" -> "MINIMAL"
      [] OTHER -> "MINIMAL"

\* static_cast<float> of a level: a float keeps quarters of the full level
\* where a double keeps sixteenths.
FloatStep == 4
StaticCastFloat(level) == ((level + FloatStep \div 2) \div FloatStep) * FloatStep

\* StateSync::CaptureShipState; ShipUpdate() has full levels.
CaptureShipState(sync, ship, scope) ==
    LET vital == scope \in {"FULL", "VITAL"}
    IN  [shipUUID |-> ship.uuid,
         timestamp |-> sync.currentTick,
         scope |-> scope,
         position |-> ship.position,
         velocity |-> ship.velocity,
         angle |-> ship.facing,
         shields |-> IF vital THEN StaticCastFloat(ship.shields) ELSE FullLevel,
         hull |-> IF vital THEN StaticCastFloat(ship.hull) ELSE FullLevel,
         energy |-> IF vital THEN StaticCastFloat(ship.energy) ELSE FullLevel,
         fuel |-> IF vital THEN StaticCastFloat(ship.fuel) ELSE FullLevel,
         flags |-> 0]

\* The loop of StateSync::GetUpdatesForPlayer over the ships from index i on.
RECURSIVE UpdatesFrom(_, _, _, _, _)
UpdatesFrom(sync, manager, player, allShips, i) ==
    IF i > Len(allShips)
    THEN <<>>
    ELSE LET rest == UpdatesFrom(sync, manager, player, allShips, i + 1)
         IN  IF allShips[i] = <<>>
             THEN rest
             ELSE LET ship == allShips[i][1]
                      interest == GetShipInterest(manager, player, ship)
                  IN  IF interest = "NONE"
                      THEN rest
                      ELSE IF ~ShouldUpdateThisTick(interest, sync.currentTick)
                      THEN rest
                      ELSE <<CaptureShipState(sync, ship,
                                 DetermineUpdateScope(InterestToPriority(interest)))>>
                               \o rest

\* The setters of Ship called by StateSync::ApplyShipUpdate
ShipAfterUpdate_EveryField(ship, update) ==
    [ship EXCEPT !.position = update.position, !.velocity = update.velocity,
                 !.facing = update.angle, !.shields = update.shields,
                 !.hull = update.hull, !.energy = update.energy, !.fuel = update.fuel]

ShipAfterUpdate(ship, update) ==
    LET moved == [ship EXCEPT !.position = update.position,
                              !.velocity = update.velocity,
                              !.facing = update.angle]
    IN  IF update.scope \in {"FULL", "VITAL"}
        THEN [moved EXCEPT !.shields = update.shields, !.hull = update.hull,
                           !.energy = update.energy, !.fuel = update.fuel]
        ELSE moved

\* StateSync::UpdateDeadReckoning with the State made by ApplyShipUpdate
UpdateDeadReckoning(sync, update) ==
    [sync EXCEPT !.shipDeadReckoning =
        MapPut(@, update.shipUUID,
               [authoritativeState |->
                    [position |-> update.position, velocity |-> update.velocity,
                     angle |-> update.angle, timestamp |-> update.timestamp],
                currentTimestamp |-> sync.currentTick])]

\* DeadReckoning::State()
NewState == [position |-> <<0, 0>>, velocity |-> <<0, 0>>, angle |-> 0, timestamp |-> 0]

\* DeadReckoning::PredictState
PredictState_Verbatim(dr, targetTimestamp) == dr.authoritativeState

PredictState(dr, targetTimestamp) ==
    LET authoritativeState == dr.authoritativeState
    IN  IF targetTimestamp <= authoritativeState.timestamp
        THEN authoritativeState
        ELSE LET deltaTicks == targetTimestamp - authoritativeState.timestamp
             IN  [position |->
                      <<authoritativeState.position[1]
                            + authoritativeState.velocity[1] * deltaTicks,
                        authoritativeState.position[2]
                            + authoritativeState.velocity[2] * deltaTicks>>,
                  velocity |-> authoritativeState.velocity,
                  angle |-> authoritativeState.angle,
                  timestamp |-> targetTimestamp]

\* StateSync::PredictShipState
PredictShipState(sync, shipUUID, targetTick) ==
    IF shipUUID \notin DOMAIN sync.shipDeadReckoning
    THEN NewState
    ELSE PredictState(sync.shipDeadReckoning[shipUUID], targetTick)

StateSyncUnchanged ==
    /\ UNCHANGED <<clockVars, serverVars, loopVars, worldVars, threadVars, historyVars,
                   bufferVars, validatorVars, predictorVars, connectionMonitor,
                   interpolatorVars, clientVars, reconciliationVars, projectileVars,
                   managerVars, programVars>>

SetInterestManager ==
    /\ stateSync' = [stateSync EXCEPT !.interestManager = TRUE]
    /\ op' = [name |-> "SetInterestManager"]
    /\ UNCHANGED <<interestManager, ships, lastUpdate>>
    /\ StateSyncUnchanged

\* StateSync::SetCurrentTick with the next tick
SetCurrentTick ==
    /\ stateSync.currentTick < MaxSyncTick
    /\ stateSync' =
           [stateSync EXCEPT
               !.currentTick = @ + 1,
               !.shipDeadReckoning =
                   [u \in DOMAIN @ |->
                       [@[u] EXCEPT !.currentTimestamp = stateSync.currentTick + 1]]]
    /\ op' = [name |-> "SetCurrentTick"]
    /\ UNCHANGED <<interestManager, ships, lastUpdate>>
    /\ StateSyncUnchanged

SetPlayerInterestCenter(player, position) ==
    /\ interestManager' =
           [interestManager EXCEPT !.playerCenters = MapPut(@, player, position)]
    /\ op' = [name |-> "SetPlayerInterestCenter"]
    /\ UNCHANGED <<stateSync, ships, lastUpdate>>
    /\ StateSyncUnchanged

RemovePlayer(player) ==
    /\ interestManager' =
           [interestManager EXCEPT !.playerCenters =
               [q \in DOMAIN @ \ {player} |-> @[q]]]
    /\ op' = [name |-> "RemovePlayer"]
    /\ UNCHANGED <<stateSync, ships, lastUpdate>>
    /\ StateSyncUnchanged

\* GetShipInterest for the ship in slot i of the world
GetShipInterestCall(player, i) ==
    /\ ships[i] # <<>>
    /\ op' = [name |-> "GetShipInterest", playerUUID |-> player, slot |-> i,
              level |-> GetShipInterest(interestManager, player, ships[i][1])]
    /\ UNCHANGED stateSyncVars
    /\ StateSyncUnchanged

GetUpdatesForPlayer(player) ==
    /\ op' = [name |-> "GetUpdatesForPlayer", playerUUID |-> player,
              updates |-> IF ~stateSync.interestManager
                          THEN <<>>
                          ELSE UpdatesFrom(stateSync, interestManager, player, ships, 1)]
    /\ UNCHANGED stateSyncVars
    /\ StateSyncUnchanged

\* ApplyShipUpdate on the ship in slot i with an update made for it
ApplyShipUpdate(i, received) ==
    LET update == [received EXCEPT !.shipUUID = ships[i][1].uuid]
    IN  /\ ships[i] # <<>>
        /\ ships' = [ships EXCEPT ![i] = <<ShipAfterUpdate(ships[i][1], update)>>]
        /\ stateSync' = UpdateDeadReckoning(stateSync, update)
        /\ lastUpdate' = [lastUpdate EXCEPT ![i] =
                              <<[position |-> update.position, velocity |-> update.velocity,
                                 angle |-> update.angle, timestamp |-> update.timestamp]>>]
        /\ op' = [name |-> "ApplyShipUpdate", slot |-> i, update |-> update]
        /\ UNCHANGED interestManager
        /\ StateSyncUnchanged

\* The updates that move the ship in slot i: its own ship to one of two
\* places, another ship to each distance band and its edges.
PositionUpdates(i) ==
    {[shipUUID |-> "", timestamp |-> CHOOSE t \in UpdateTimestamps : TRUE,
      scope |-> "MINIMAL", position |-> position,
      velocity |-> <<0, 0>>, angle |-> 0,
      shields |-> FullLevel, hull |-> FullLevel, energy |-> FullLevel,
      fuel |-> FullLevel, flags |-> 0] :
        position \in IF ships[i] # <<>> /\ ships[i][1].owner # <<>>
                     THEN OwnUpdatePositions ELSE UpdatePositions}

\* The interest manager and the updates for an observer: the observers move
\* their centers, the ships are moved by updates, the tick advances.
NextInterest ==
    \/ SetInterestManager
    \/ SetCurrentTick
    \/ \E p \in Players, c \in InterestCenters : SetPlayerInterestCenter(p, c)
    \/ \E p \in Players : RemovePlayer(p)
    \/ \E p \in Players, i \in 1..Len(ships) : GetShipInterestCall(p, i)
    \/ \E p \in Players : GetUpdatesForPlayer(p)
    \/ \E i \in 1..Len(ships) : \E u \in PositionUpdates(i) : ApplyShipUpdate(i, u)

SpecInterest == Init /\ [][NextInterest]_vars

\* The updates received for a ship, of every scope.
ReceivedUpdates ==
    {[shipUUID |-> "", timestamp |-> t, scope |-> scope, position |-> position,
      velocity |-> motion.velocity, angle |-> motion.angle,
      shields |-> levels.shields, hull |-> levels.hull, energy |-> levels.energy,
      fuel |-> levels.fuel, flags |-> 0] :
        t \in UpdateTimestamps, scope \in UpdateScopes, motion \in UpdateMotions,
        levels \in UpdateLevels, position \in OwnUpdatePositions}

\* PredictShipState for the ship in slot i of the world
PredictShipStateCall(i, targetTick) ==
    /\ ships[i] # <<>>
    /\ op' = [name |-> "PredictShipState", slot |-> i, targetTick |-> targetTick,
              state |-> PredictShipState(stateSync, ships[i][1].uuid, targetTick)]
    /\ UNCHANGED stateSyncVars
    /\ StateSyncUnchanged

\* The ticks a prediction is asked for: before, at and after the tick of an
\* update.
TargetTicks == {0, 3, 4, 5, 7}

\* The updates a prediction starts from: two ticks, two places, at rest and
\* moving.
BasisTimestamps == {2, 4}
BasisUpdates ==
    {[shipUUID |-> "", timestamp |-> t, scope |-> "POSITION", position |-> position,
      velocity |-> motion.velocity, angle |-> motion.angle,
      shields |-> FullLevel, hull |-> FullLevel, energy |-> FullLevel,
      fuel |-> FullLevel, flags |-> 0] :
        t \in BasisTimestamps, motion \in UpdateMotions, position \in OwnUpdatePositions}

\* Dead reckoning: updates arrive for the ships in any order of their ticks
\* while the tick advances, and the ships' states are predicted.
NextDeadReckoning ==
    \/ SetCurrentTick
    \/ \E i \in 1..Len(ships) : \E u \in BasisUpdates : ApplyShipUpdate(i, u)
    \/ \E i \in 1..Len(ships), t \in TargetTicks : PredictShipStateCall(i, t)

SpecDeadReckoning == Init /\ [][NextDeadReckoning]_vars

\* The application of updates: updates of every scope arrive for the ships
\* while the tick advances.
NextStateSync ==
    \/ SetCurrentTick
    \/ \E i \in 1..Len(ships) : \E u \in ReceivedUpdates : ApplyShipUpdate(i, u)

SpecStateSync == Init /\ [][NextStateSync]_vars

\* The slots of the world in world order.
Slots == [i \in 1..Len(ships) |-> i]

\* The period and the scope of an interest level.
PeriodOf(level) ==
    CASE level \in {"CRITICAL", "HIGH"} -> 1
      [] level = "MEDIUM" -> 2
      [] level = "LOW" -> 5

ScopeOf(level) ==
    CASE level \in {"CRITICAL", "HIGH"} -> "FULL"
      [] level = "MEDIUM" -> "POSITION"
      [] level = "LOW" -> "MINIMAL"

\* The ship in slot i is due for the observer at the tick of StateSync.
DueFor(player, i) ==
    /\ ships[i] # <<>>
    /\ LET level == GetShipInterest(interestManager, player, ships[i][1])
       IN  /\ level # "NONE"
           /\ stateSync.currentTick % PeriodOf(level) = 0

\* C28: with the interest manager set, GetUpdatesForPlayer for observer P at
\* tick t returns, in world order, one update for each ship whose interest
\* level L for P is not NONE and for which t mod period(L) = 0 (periods 1, 1,
\* 2, 5 for CRITICAL, HIGH, MEDIUM, LOW) and no other update; the scope of
\* the update is FULL for CRITICAL and HIGH, POSITION for MEDIUM and MINIMAL
\* for LOW.
C28_UpdatesForDueShipsInWorldOrder ==
    (op.name = "GetUpdatesForPlayer" /\ stateSync.interestManager) =>
        LET due == SelectSeq(Slots, LAMBDA i : DueFor(op.playerUUID, i))
        IN  /\ Len(op.updates) = Len(due)
            /\ \A k \in 1..Len(due) :
                   LET ship == ships[due[k]][1]
                   IN  /\ op.updates[k].shipUUID = ship.uuid
                       /\ op.updates[k].position = ship.position
                       /\ op.updates[k].scope
                              = ScopeOf(GetShipInterest(interestManager, op.playerUUID, ship))

\* At a tick that is a multiple of 2 and not of 5, the observer's own ship
\* and a ship at MEDIUM level are sent, in world order; at a tick that is a
\* multiple of neither only the own ship is sent though the other ship is
\* at LOW level.
C28_Witness ==
    /\ op.name = "GetUpdatesForPlayer"
    /\ stateSync.interestManager
    /\ \/ /\ stateSync.currentTick % 2 = 0
          /\ stateSync.currentTick % 5 # 0
          /\ Len(op.updates) = 2
          /\ op.updates[1].scope = "FULL"
          /\ op.updates[2].scope = "POSITION"

\* The square of the distance between two points.
DistanceSquared(a, b) == (a[1] - b[1]) * (a[1] - b[1]) + (a[2] - b[2]) * (a[2] - b[2])

\* C29: GetShipInterest returns CRITICAL for a ship the observing player
\* owns, at any distance; for another ship, with d the distance to the
\* observer's registered center, it returns CRITICAL if d < 1000, HIGH if
\* d < 3000, MEDIUM if d < 6000, LOW if d < 10000 and NONE otherwise.
C29_OwnedOrDistanceBand ==
    op.name = "GetShipInterest" =>
        LET ship == ships[op.slot][1]
        IN  /\ ship.owner = <<op.playerUUID>> => op.level = "CRITICAL"
            /\ (/\ ship.owner # <<op.playerUUID>>
                /\ op.playerUUID \in DOMAIN interestManager.playerCenters) =>
                   LET dd == DistanceSquared(ship.position,
                                 interestManager.playerCenters[op.playerUUID])
                   IN  op.level =
                           IF dd < 1000 * 1000 THEN "CRITICAL"
                           ELSE IF dd < 3000 * 3000 THEN "HIGH"
                           ELSE IF dd < 6000 * 6000 THEN "MEDIUM"
                           ELSE IF dd < 10000 * 10000 THEN "LOW"
                           ELSE "NONE"

\* The interest in a ship of nobody exactly 1000 away from the observer's
\* center, off the axes, was asked for: it is HIGH.
C29_Witness ==
    /\ op.name = "GetShipInterest"
    /\ ships[op.slot][1].owner = <<>>
    /\ op.playerUUID \in DOMAIN interestManager.playerCenters
    /\ interestManager.playerCenters[op.playerUUID] # <<0, 0>>
    /\ DistanceSquared(ships[op.slot][1].position,
                       interestManager.playerCenters[op.playerUUID]) = 1000 * 1000
    /\ op.level = "HIGH"

\* A step of ApplyShipUpdate writes the position, velocity and facing of the
\* update to the ship, its shields, hull, energy and fuel when the scope is
\* FULL or VITAL, and leaves these four as they were when the scope is
\* POSITION or MINIMAL; the ship's identity and owner and the other ships
\* stay.
C30_ApplyStep ==
    op'.name = "ApplyShipUpdate" =>
        LET old == ships[op'.slot][1]
            new == ships'[op'.slot][1]
            update == op'.update
            levels(x) == <<x.shields, x.hull, x.energy, x.fuel>>
        IN  /\ new.position = update.position
            /\ new.velocity = update.velocity
            /\ new.facing = update.angle
            /\ update.scope \in {"FULL", "VITAL"} => levels(new) = levels(update)
            /\ update.scope \in {"POSITION", "MINIMAL"} => levels(new) = levels(old)
            /\ new.uuid = old.uuid /\ new.owner = old.owner
            /\ \A i \in 1..Len(ships) : i # op'.slot => ships'[i] = ships[i]

C31_PredictionFromLastUpdate ==
    (op.name = "PredictShipState" /\ lastUpdate[op.slot] # <<>>) =>
        LET u == lastUpdate[op.slot][1]
            t == op.targetTick
        IN  /\ op.state.velocity = u.velocity
            /\ op.state.angle = u.angle
            /\ t >= u.timestamp =>
                   /\ op.state.position[1] = u.position[1] + u.velocity[1] * (t - u.timestamp)
                   /\ op.state.position[2] = u.position[2] + u.velocity[2] * (t - u.timestamp)
                   /\ op.state.timestamp = t
            /\ t < u.timestamp =>
                   /\ op.state.position = u.position
                   /\ op.state.timestamp = u.timestamp

\* A prediction three ticks after the tick of the last update, which came
\* with a velocity, has moved the ship along both axes; the tick of StateSync
\* differs from the target.
C31_Witness ==
    /\ op.name = "PredictShipState"
    /\ lastUpdate[op.slot] # <<>>
    /\ op.targetTick = lastUpdate[op.slot][1].timestamp + 3
    /\ lastUpdate[op.slot][1].velocity = <<2, -1>>
    /\ op.state.position[1] = lastUpdate[op.slot][1].position[1] + 6
    /\ op.state.position[2] = lastUpdate[op.slot][1].position[2] - 3
    /\ stateSync.currentTick # op.targetTick

(***************************************************************************)
(* PlayerManager (multiplayer/PlayerManager.cpp) with the NetworkPlayer    *)
(* objects it registers.  The players a caller passes are the registered   *)
(* ones; a ship pointer is a slot of the world, the empty slot being the   *)
(* null pointer.  The Ship class is not part of the sources: a ship        *)
(* reports the owner it was given with SetOwnerPlayerUUID, HasOwner() says *)
(* whether it was given one.                                               *)
(***************************************************************************)

\* NetworkPlayer::AddShip and NetworkPlayer::RemoveShip on the ship list
AddShip(player, ship) ==
    IF \E k \in 1..Len(player.ships) : player.ships[k] = ship
    THEN player
    ELSE [player EXCEPT !.ships = Append(@, ship)]

RemoveShip(player, ship) ==
    [player EXCEPT !.ships = SelectSeq(@, LAMBDA listed : listed # ship)]

\* An assignment that also takes the ship from the list of every other
\* player: what the ownership claims need of AssignShipToPlayer.
Assigned_Moved(m, ship, player) ==
    [manager |-> [m.manager EXCEPT !.shipOwnership = MapPut(@, ship, player)],
     players |-> [q \in Players |->
                     IF q = player THEN AddShip(m.players[q], ship)
                     ELSE RemoveShip(m.players[q], ship)]]

\* The manager and the player objects after PlayerManager::AssignShipToPlayer
Assigned(m, ship, player) ==
    [manager |-> [m.manager EXCEPT !.shipOwnership = MapPut(@, ship, player)],
     players |-> [m.players EXCEPT ![player] = AddShip(@, ship)]]

\* The manager and the player objects after
\* PlayerManager::UnassignShipFromPlayer
Unassigned(m, ship) ==
    IF ship \notin DOMAIN m.manager.shipOwnership
    THEN m
    ELSE LET owner == m.manager.shipOwnership[ship]
         IN  [manager |->
                  [m.manager EXCEPT !.shipOwnership =
                      [other \in DOMAIN @ \ {ship} |-> @[other]]],
              players |->
                  IF owner \in m.manager.registry
                  THEN [m.players EXCEPT ![owner] = RemoveShip(@, ship)]
                  ELSE m.players]

\* The loop of RemovePlayer over its copy of the player's ship list
RECURSIVE UnassignedAll(_, _, _)
UnassignedAll(m, list, k) ==
    IF k > Len(list) THEN m
    ELSE UnassignedAll(Unassigned(m, list[k]), list, k + 1)

\* PlayerManager::GetShipOwner: <<>> for nullptr
GetShipOwner(manager, ship) ==
    IF ships[ship] = <<>> \/ ship \notin DOMAIN manager.shipOwnership
    THEN <<>>
    ELSE IF manager.shipOwnership[ship] \in manager.registry
         THEN <<manager.shipOwnership[ship]>>
         ELSE <<>>

\* Ship::HasOwner and Ship::GetOwnerPlayerUUID of the ship in a slot
HasOwner(ship) == ships[ship][1].owner # <<>>
GetOwnerPlayerUUID(ship) == ships[ship][1].owner

ManagerUnchanged ==
    /\ UNCHANGED <<clockVars, serverVars, loopVars, worldVars, threadVars, historyVars,
                   bufferVars, validatorVars, predictorVars, connectionMonitor,
                   interpolatorVars, clientVars, reconciliationVars, projectileVars,
                   stateSyncVars, programVars>>

\* What a claim compares a call with: the manager and the lists before it.
Managed == [manager |-> playerManager, players |-> networkPlayers]

SetPlayerLeaveCallback ==
    /\ playerManager' = [playerManager EXCEPT !.onPlayerLeave = TRUE]
    /\ op' = [name |-> "SetPlayerLeaveCallback"]
    /\ UNCHANGED networkPlayers
    /\ ManagerUnchanged

\* PlayerManager::AddPlayer(uuid, name)
AddPlayer(uuid) ==
    /\ IF uuid \in playerManager.registry
       THEN UNCHANGED managerVars
       ELSE /\ playerManager' = [playerManager EXCEPT !.registry = @ \cup {uuid}]
            /\ networkPlayers' = [networkPlayers EXCEPT ![uuid] = NewNetworkPlayer]
    /\ op' = [name |-> "AddPlayer", player |-> uuid]
    /\ ManagerUnchanged

\* PlayerManager::AssignShipToPlayer with a registered player
AssignShipToPlayer(ship, player) ==
    /\ player \in playerManager.registry
    /\ LET after == IF ships[ship] = <<>> THEN Managed
                    ELSE Assigned(Managed, ship, player)
       IN  /\ playerManager' = after.manager
           /\ networkPlayers' = after.players
    /\ op' = [name |-> "AssignShipToPlayer", ship |-> ship, player |-> player]
    /\ ManagerUnchanged

\* PlayerManager::UnassignShipFromPlayer
UnassignShipFromPlayer(ship) ==
    /\ LET after == IF ships[ship] = <<>> THEN Managed
                    ELSE Unassigned(Managed, ship)
       IN  /\ playerManager' = after.manager
           /\ networkPlayers' = after.players
    /\ op' = [name |-> "UnassignShipFromPlayer", ship |-> ship]
    /\ ManagerUnchanged

\* PlayerManager::RemovePlayer(uuid).  The call records the players that
\* onPlayerLeave was called with and whether each was registered then.
ManagerRemovePlayer(uuid) ==
    /\ IF uuid \notin playerManager.registry
       THEN /\ UNCHANGED managerVars
            /\ op' = [name |-> "RemovePlayer", player |-> uuid, before |-> Managed,
                      left |-> <<>>]
       ELSE LET after == UnassignedAll(Managed, networkPlayers[uuid].ships, 1)
            IN  /\ playerManager' = [after.manager EXCEPT !.registry = @ \ {uuid}]
                /\ networkPlayers' = after.players
                /\ op' = [name |-> "RemovePlayer", player |-> uuid, before |-> Managed,
                          left |-> IF playerManager.onPlayerLeave
                                   THEN << [player |-> uuid,
                                            registered |-> uuid \in after.manager.registry] >>
                                   ELSE <<>>]
    /\ ManagerUnchanged

\* The player manager: players join and leave, ships are assigned,
\* reassigned and unassigned.
NextManager ==
    \/ SetPlayerLeaveCallback
    \/ \E p \in Players : AddPlayer(p)
    \/ \E i \in 1..Len(ships), p \in Players : AssignShipToPlayer(i, p)
    \/ \E i \in 1..Len(ships) : UnassignShipFromPlayer(i)
    \/ \E p \in Players : ManagerRemovePlayer(p)

SpecManager == Init /\ [][NextManager]_vars

\* The ships in a player's list.
Listed(player) == {player.ships[k] : k \in 1..Len(player.ships)}

\* C32: after AssignShipToPlayer(ship, player), GetShipOwner(ship) is that
\* player, the ship is in the player's ship list, and the ship itself
\* reports an owner whose UUID is the player's: HasOwner() is true and
\* GetOwnerPlayerUUID() equals it.
C32_AssignedShipReportsOwner ==
    (op.name = "AssignShipToPlayer" /\ ships[op.ship] # <<>>) =>
        /\ GetShipOwner(playerManager, op.ship) = <<op.player>>
        /\ op.ship \in Listed(networkPlayers[op.player])
        /\ HasOwner(op.ship)
        /\ GetOwnerPlayerUUID(op.ship) = <<op.player>>

\* The ships the ownership map gives to a player.
OwnedBy(manager, uuid) ==
    {ship \in DOMAIN manager.shipOwnership : manager.shipOwnership[ship] = uuid}

\* C33: RemovePlayer(p) of a registered player fires the leave callback
\* exactly once while p is still registered, removes p, and unassigns
\* exactly the ships currently owned by p; every other player and the
\* ownership of every ship currently owned by another player are unchanged.
C33_RemovePlayerTouchesOnlyItsShips ==
    (op.name = "RemovePlayer" /\ op.player \in op.before.manager.registry) =>
        /\ op.before.manager.onPlayerLeave =>
               op.left = << [player |-> op.player, registered |-> TRUE] >>
        /\ playerManager.registry = op.before.manager.registry \ {op.player}
        /\ DOMAIN playerManager.shipOwnership
               = DOMAIN op.before.manager.shipOwnership
                     \ OwnedBy(op.before.manager, op.player)
        /\ \A ship \in DOMAIN playerManager.shipOwnership :
               playerManager.shipOwnership[ship] = op.before.manager.shipOwnership[ship]
        /\ \A q \in Players \ {op.player} : networkPlayers[q] = op.before.players[q]

\* C39: after any sequence of AddPlayer, AssignShipToPlayer,
\* UnassignShipFromPlayer and RemovePlayer calls, a ship is in a registered
\* player's ship list if and only if the ownership map records that player
\* as the ship's owner, so each ship is listed by at most one player.
C39_ListedIffOwned ==
    \A p \in playerManager.registry :
        Listed(networkPlayers[p]) = OwnedBy(playerManager, p)

(***************************************************************************)
(* Claims about the snapshots the server loop stores                       *)
(***************************************************************************)

\* C34: the ticks of the snapshots in the server's snapshot ring never
\* decrease in insertion order, for every sequence of server lifecycle
\* operations including Stop followed by a second Start and Run, so the
\* exact-tick binary-search lookup finds every retained snapshot.
C34_RingTicksNeverDecrease ==
    /\ \A k \in 1..(Len(snapshots) - 1) :
           snapshots[k].gameTick <= snapshots[k + 1].gameTick
    /\ \A k \in 1..Len(snapshots) :
           GetSnapshotAtTick(snapshots, snapshots[k].gameTick) # <<>>

\* C36: every snapshot the server stores is labelled with the tick of the
\* world it contains: for each entry of the ring, the entry's tick equals
\* the game tick of the world copy stored in it.
C36_LabelIsWorldTick ==
    \A k \in 1..Len(snapshots) : snapshots[k].gameTick = snapshots[k].stateTick

(***************************************************************************)
(* Late commands: the server simulates tick after tick while commands      *)
(* arrive, some for a tick that has just been simulated.  Nothing but the  *)
(* server's tick removes commands from the buffer.                         *)
(***************************************************************************)

\* The server simulates this many ticks: enough for the prune of
\* ProcessCommands to reach a command of the tick before the first.
LateServerTicks == 121

\* A command for the tick before the first one simulated here, which is
\* within maxPastTicks of the first ticks, and commands for the third tick.
LateCommandInputs ==
    {PlayerCommand(1, PruneKeepTicks - 1, 0), PlayerCommand(1, PruneKeepTicks + 2, 0),
     PlayerCommand(2, PruneKeepTicks + 2, 1)}

InitLateCommands == ServerSimulating(Watched)

LateServerTick == ServerTickWithin(LateServerTicks)

NextLateCommands ==
    \/ \E c \in LateCommandInputs : AddCommand(c)
    \/ LateServerTick

SpecLateCommands == InitLateCommands /\ [][NextLateCommands]_vars

\* A command that leaves the buffer in a tick of the server has been handed
\* to validation once, and a command handed in this tick is of this tick.
C35_LeavesHandedOnce ==
    op'.name = "ProcessCommands" =>
        /\ \A b \in Buffered(commandQueue) \ Buffered(commandQueue') :
               handed.count[b]
                   + Cardinality({i \in 1..Len(op'.commands) : op'.commands[i] = b}) = 1
        /\ \A i \in 1..Len(op'.commands) : op'.commands[i].gameTick = op'.tick

\* C35: every command that enters the server's command buffer is handed to
\* validation and application by exactly one simulation tick, the tick equal
\* to its target tick, before it is pruned: no buffered command is processed
\* twice and none is pruned without ever having been processed, commands
\* that arrive for a tick the loop has already passed but within the
\* validator's past-tick tolerance included.
C35_EveryCommandProcessedOnce ==
    /\ [][C35_LeavesHandedOnce]_vars
    /\ [](\A b \in DOMAIN handed.count : handed.count[b] <= 1)

(***************************************************************************)
(* The prediction-error counter of the predictor                           *)
(***************************************************************************)

\* A ReconcileWithServer call whose replay ends on the server tick plus the
\* number of commands replayed, or that has no command to replay, leaves
\* the counter as it was.
C37_ReconcileStep ==
    (/\ op'.name = "ReconcileWithServer"
     /\ \/ op'.replayed = <<>>
        \/ op'.tick = op'.serverTick + Len(op'.replayed)) =>
        predictionErrors' = predictionErrors

\* C37: the predictor's prediction-error counter counts mispredictions only:
\* a ReconcileWithServer call whose replay of the remaining unconfirmed
\* commands ends on the expected tick (server tick plus the number of
\* replayed commands) leaves the counter unchanged, as does a call that
\* leaves no command to replay.
C37_CounterCountsMispredictionsOnly == [][C37_ReconcileStep]_vars

(***************************************************************************)
(* The player identity of the client                                       *)
(***************************************************************************)

\* C38: whenever SendCommand builds a command, the client's player UUID has
\* already been assigned: in every reachable state in which the client is
\* CONNECTED the server welcome has been processed, so SendCommand never
\* reads an unset player identity.
C38_ConnectedHasIdentity ==
    /\ state = "CONNECTED" => playerUUID # <<>>
    /\ (op.name = "SendCommand" /\ op.stateBefore = "CONNECTED") => playerUUID # <<>>
    /\ ~clientCrashed


(***************************************************************************)
(* The server program: main, the signal handler and the console thread     *)
(* (ServerMain.cpp)                                                        *)
(***************************************************************************)

\* What the program does here leaves everything but the threads' positions,
\* the two running flags and the program's own variables alone.
ProgramUnchanged ==
    /\ UNCHANGED <<clockVars, initialized, totalCommandsProcessed, totalCommandsRejected,
                   gameTick, accumulatedTime, lastSimulationTime, lastBroadcastTime,
                   currentTime, worldVars, historyVars, bufferVars, validatorVars,
                   predictorVars, op>>
    /\ UNCHANGED <<connectionMonitor, interpolatorVars, clientVars, reconciliationVars,
                   projectileVars, stateSyncVars, managerVars>>

\* main's argument loop (ServerMain.cpp:130-133, 153): --no-console, read
\* before the handlers are installed.
NoConsole ==
    /\ mainPc = "Initialize"
    /\ ~gShutdown
    /\ consoleEnabled
    /\ consoleEnabled' = FALSE
    /\ UNCHANGED <<gShutdown, consolePc, threadVars, serverRunning, loopRunning>>
    /\ ProgramUnchanged

\* One iteration of the loop of ServerLoop::Run (ServerLoop.cpp:44-80) as far
\* as the control flow goes: the iteration ends and the loop test is next.
\* Nothing in an iteration reads g_shutdown or writes the running flags.
LoopIteration ==
    /\ mainPc = "Frame"
    /\ mainPc' = "LoopTest"
    /\ UNCHANGED <<programVars, stopPc, serverRunning, loopRunning>>
    /\ ProgramUnchanged

\* The console thread exists once main has passed line 191.
ConsoleStarted == consoleEnabled /\ runs > 0

\* if(consoleThread.joinable()) consoleThread.join(); return 0;
Join ==
    /\ mainPc = "Returned"
    /\ ConsoleStarted => consolePc = "done"
    /\ mainPc' = "Exit"
    /\ UNCHANGED <<programVars, stopPc, serverRunning, loopRunning>>
    /\ ProgramUnchanged

\* A SIGINT or SIGTERM is delivered while the handler is installed, that is
\* from before Initialize until main returns: g_shutdown = true.  The call
\* of Server::Stop that follows is StopEnter, StopLoop and StopFlag of the
\* stopper "signal".
SignalReceived ==
    /\ mainPc # "Exit"
    /\ ~gShutdown
    /\ gShutdown' = TRUE
    /\ UNCHANGED <<consolePc, consoleEnabled, threadVars, serverRunning, loopRunning>>
    /\ ProgramUnchanged

SignalStop == gShutdown /\ StopEnter("signal")

\* while(!g_shutdown && server->IsRunning()), then the prompt and the call of
\* getline.
ConsoleTest ==
    /\ ConsoleStarted
    /\ consolePc = "test"
    /\ consolePc' = IF ~gShutdown /\ serverRunning THEN "getline" ELSE "done"
    /\ UNCHANGED <<gShutdown, consoleEnabled, threadVars, serverRunning, loopRunning>>
    /\ ProgramUnchanged

\* What the console can deliver: a command that ends the server, any other
\* command, or the end of the input.
ConsoleLines == {"quit", "status", "eof"}

\* getline returns: the end of the input breaks the loop, "quit" goes on to
\* ExecuteConsoleCommand("shutdown"), another command is executed and the
\* loop goes round.
ConsoleLine(line) ==
    /\ consolePc = "getline"
    /\ consolePc' = CASE line = "eof" -> "done"
                      [] line = "quit" -> "shutdown"
                      [] OTHER -> "test"
    /\ UNCHANGED <<gShutdown, consoleEnabled, threadVars, serverRunning, loopRunning>>
    /\ ProgramUnchanged

\* Server::HandleCommand_Shutdown calls Server::Stop (Server.cpp:514-518).
ConsoleStop == consolePc = "shutdown" /\ StopEnter("console")

\* Stop has returned; break.
ConsoleBreak ==
    /\ consolePc = "shutdown"
    /\ stopPc["console"] = "done"
    /\ consolePc' = "done"
    /\ UNCHANGED <<gShutdown, consoleEnabled, threadVars, serverRunning, loopRunning>>
    /\ ProgramUnchanged

NextProgram ==
    \/ NoConsole
    \/ Initialize
    \/ Start
    \/ Run
    \/ LoopEnter
    \/ LoopTest
    \/ LoopIteration
    \/ Join
    \/ SignalReceived
    \/ SignalStop
    \/ ConsoleTest
    \/ \E line \in ConsoleLines : ConsoleLine(line)
    \/ ConsoleStop
    \/ ConsoleBreak
    \/ \E s \in Stoppers : StopLoop(s)
    \/ \E s \in Stoppers : StopFlag(s)

\* Every thread that can take a step of its own takes it in the end: main,
\* the handler once the signal is delivered, and the console thread between
\* two reads.  Neither a signal nor a line of console input is promised.
ProgramFairness ==
    /\ WF_vars(Initialize \/ Start \/ Run \/ LoopEnter \/ LoopTest \/ LoopIteration \/ Join)
    /\ WF_vars(SignalStop \/ StopLoop("signal") \/ StopFlag("signal"))
    /\ WF_vars(ConsoleTest \/ ConsoleStop \/ ConsoleBreak
               \/ StopLoop("console") \/ StopFlag("console"))

SpecProgram == Init /\ [][NextProgram]_vars /\ ProgramFairness

\* C40: once SIGINT or SIGTERM has been delivered, whenever after the handlers
\* were installed and with the console enabled or not, main returns in the
\* end, with no line of console input needed for it.
C40_SignalLeadsToExit == gShutdown ~> (mainPc = "Exit")

====
